---- MODULE Spec2Model ----
(***************************************************************************)
(* Sauron: height-aware reverse proxy.  Model of the height store, the     *)
(* external endpoint store, the internal health checkers and the selector. *)
(*                                                                         *)
(* Strings that the code joins or splits on ":" are modelled as sequences  *)
(* of colon-free segments: "pocket:node-1:api" is                          *)
(* <<"pocket", "node-1", "api">>, and a + ":" + b is a \o b.               *)
(***************************************************************************)
EXTENDS Integers, Sequences, FiniteSets, TLC

VARIABLES
    heightStore,    \* HeightStore.data: key -> NodeMetrics
    endpoints,      \* ExternalEndpointStore.endpoints: key -> ExternalEndpoint
    config,         \* the configuration snapshot of the loader
    nodeAvailable,  \* the gauge metrics.NodeAvailable, per (network, node, type)
    online,         \* the internal backends that answer their health probe
    sel,            \* the GetBestNode call in progress: what it read and returned
    run,            \* the trailing run of error reports that follows a MarkValidated
    updates,        \* per height-store key, the latencies passed to Update so far
    mu,             \* NodeMetrics.mu per height-store key: the goroutine that holds it
    threads,        \* the goroutines inside a height-store call: position and locals
    held,           \* the pointers a caller holds on values a store accessor returned
    resolve,        \* the last GetEndpointURL call: what it read and returned
    req,            \* the request a proxy is handling: position, locals and outcome
    pass,           \* the pass of the external checker in progress: position and locals
    stream,         \* the gRPC stream a handler proxies: forwarders, errChan, handler
    tunnel,         \* the WebSocket tunnel of a handler: sockets, copiers, errChan
    server,         \* Server.Shutdown: its position, the servers, the pool, the connections
    connPool,       \* GRPCProxy.connPool and connMu with the callers of getOrCreateConnection
    rings           \* two Sauron rings that list each other as externals

vars == <<heightStore, endpoints, config, nodeAvailable, online, sel, run, updates,
          mu, threads, held, resolve, req, pass, stream, tunnel, server, connPool,
          rings>>

\* what the specifications of the selector and of the health checks leave alone
aux == <<run, updates, mu, threads, held, resolve, req, pass,
    stream, tunnel, server,
    connPool, rings>>
\* what the specification of the endpoint store leaves alone
auxStore == <<updates, mu, threads, held, resolve, req, pass,
    stream, tunnel, server,
    connPool, rings>>
\* what the specification of the latency window leaves alone
auxWindow == <<endpoints, config, nodeAvailable, online, sel, run, mu, threads, held,
              resolve, req, pass,
    stream, tunnel, server,
    connPool, rings>>
\* what the specification of the height-store mutex leaves alone
auxMutex == <<endpoints, config, nodeAvailable, online, sel, run, held, resolve, req,
             pass,
    stream, tunnel, server,
    connPool, rings>>
\* what the specification of the returned copies leaves alone
auxCopy == <<run, updates, mu, threads, resolve, req, pass,
    stream, tunnel, server,
    connPool, rings>>
\* what the specification of the identifier resolution leaves alone
auxResolve == <<heightStore, nodeAvailable, online, sel, run, updates, mu, threads, held,
               req, pass,
    stream, tunnel, server,
    connPool, rings>>

(***************************************************************************)
(* Bounds of the model                                                     *)
(***************************************************************************)
\* largest height an internal backend reports
MaxInternalHeight == 1
\* largest height a ring reports
MaxHeight == 3
\* samples a height-store key receives before the model stops updating it
MaxSamples == 1
\* the error counter is not incremented beyond this value
MaxErrorCount == 3
\* Update calls a height-store key receives where the latency window is exercised
MaxUpdates == 12
\* Update calls each health-check goroutine makes where the mutex is exercised
MaxCalls == 1

InternalHeights == 0..MaxInternalHeight
Heights == 0..MaxHeight
\* latency samples of the internal health checks
Latencies == {1, 2}
\* latency measured by an endpoint validation probe
ExtLatencies == {2}
\* heights passed to MarkValidated where only the store is exercised
StoreHeights == {1, 2}
\* configured values of external_failover_threshold (0 = not configured)
Thresholds == {0, 1}
\* latency samples where the latency window is exercised
WindowLatencies == {1, 4}

(***************************************************************************)
(* Program constants                                                       *)
(***************************************************************************)
LatencyHistorySize == 10
ErrorThreshold == 3
DefaultThreshold == 2
\* stands for math.MaxInt64, the initial minLatency of the latency scan;
\* every latency of the model is below it
MaxInt64 == 2147483647

(***************************************************************************)
(* Configuration snapshot and the inputs of the store operations           *)
(***************************************************************************)
Pocket == <<"pocket">>
Types == {<<"api">>, <<"rpc">>}
U1 == <<"https", "//ext1.example.com">>
U2 == <<"https", "//ext2.example.com">>

Node1 == [Name |-> <<"node-1">>, Network |-> Pocket]
Node2 == [Name |-> <<"node-2">>, Network |-> Pocket]

\* endpoints the two rings of external "pnf" advertise: both rings advertise
\* the same api URL
E1 == [ExternalName |-> <<"pnf">>, RingURL |-> <<"ringA">>, Network |-> Pocket,
       Type |-> <<"api">>, URL |-> U1]
E2 == [ExternalName |-> <<"pnf">>, RingURL |-> <<"ringB">>, Network |-> Pocket,
       Type |-> <<"api">>, URL |-> U1]
\* the rpc URL ring A advertises
E3 == [ExternalName |-> <<"pnf">>, RingURL |-> <<"ringA">>, Network |-> Pocket,
       Type |-> <<"rpc">>, URL |-> U2]
\* the grpc address ring A advertises
U3 == <<"ext1.example.com", "9090">>

(***************************************************************************)
(* Helpers                                                                 *)
(***************************************************************************)
RECURSIVE SumSeq(_)
SumSeq(s) == IF s = <<>> THEN 0 ELSE Head(s) + SumSeq(Tail(s))

\* every enumeration of a finite set as a sequence: the orders in which a Go
\* map range can visit the set
Perms(S) ==
    { s \in [1..Cardinality(S) -> S] : \A i, j \in 1..Cardinality(S) : i # j => s[i] # s[j] }

(***************************************************************************)
(* Strings byte by byte.  GetEndpointURL and normalizeURL look at single   *)
(* bytes of their arguments, so there a string is the sequence of its      *)
(* bytes.  Bytes spells out the colon-free segments the model uses, and    *)
(* Flat joins the segments of a string with ":".                           *)
(***************************************************************************)
Bytes(s) ==
    CASE s = "pocket" -> <<"p", "o", "c", "k", "e", "t">>
      [] s = "node-1" -> <<"n", "o", "d", "e", "-", "1">>
      [] s = "node-2" -> <<"n", "o", "d", "e", "-", "2">>
      [] s = "ext" -> <<"e", "x", "t">>
      [] s = "api" -> <<"a", "p", "i">>
      [] s = "rpc" -> <<"r", "p", "c">>
      [] s = "grpc" -> <<"g", "r", "p", "c">>
      [] s = "ws" -> <<"w", "s">>
      [] s = "https" -> <<"h", "t", "t", "p", "s">>
      [] s = "//ext1.example.com" -> <<"/", "/", "e", "x", "t", "1", ".", "e", "x", "a", "m", "p", "l", "e", ".", "c", "o", "m">>
      [] s = "//ext2.example.com" -> <<"/", "/", "e", "x", "t", "2", ".", "e", "x", "a", "m", "p", "l", "e", ".", "c", "o", "m">>
      [] s = "//node-2.internal" -> <<"/", "/", "n", "o", "d", "e", "-", "2", ".", "i", "n", "t", "e", "r", "n", "a", "l">>
      [] s = "//node-1.internal" -> <<"/", "/", "n", "o", "d", "e", "-", "1", ".", "i", "n", "t", "e", "r", "n", "a", "l">>
      [] s = "node-1.internal" -> <<"n", "o", "d", "e", "-", "1", ".", "i", "n", "t", "e", "r", "n", "a", "l">>
      [] s = "node-2.internal" -> <<"n", "o", "d", "e", "-", "2", ".", "i", "n", "t", "e", "r", "n", "a", "l">>
      [] s = "ext1.example.com" -> <<"e", "x", "t", "1", ".", "e", "x", "a", "m", "p", "l", "e", ".", "c", "o", "m">>
      [] s = "haproxy" -> <<"h", "a", "p", "r", "o", "x", "y">>
      [] s = "1317" -> <<"1", "3", "1", "7">>
      [] s = "26657" -> <<"2", "6", "6", "5", "7">>
      [] s = "9090" -> <<"9", "0", "9", "0">>
      [] s = "zz" -> <<"z", "z">>
      [] s = "" -> <<>>

RECURSIVE Flat(_)
Flat(segments) ==
    IF segments = <<>> THEN <<>>
    ELSE IF Len(segments) = 1 THEN Bytes(segments[1])
    ELSE Bytes(segments[1]) \o <<":">> \o Flat(Tail(segments))

\* the internal nodes of the configuration: name, network and the URL of each
\* protocol ("" where the protocol is not configured), as the file gives them
ConfigNode(name, api, rpc, grpc) ==
    [Name |-> Flat(name), Network |-> Flat(Pocket),
     API |-> Flat(api), RPC |-> Flat(rpc), GRPC |-> Flat(grpc)]

\* URLs with a scheme, next to a node with only an api URL
InternalsSchemes ==
    <<ConfigNode(<<"node-1">>, <<"https", "//node-1.internal", "1317">>,
                 <<"https", "//node-1.internal", "26657">>, <<"node-1.internal", "9090">>),
      ConfigNode(<<"node-2">>, <<"https", "//node-2.internal", "1317">>, <<"">>, <<"">>)>>

\* URLs without a scheme: host:port, one host name starting with "h"
InternalsBare ==
    <<ConfigNode(<<"node-1">>, <<"node-1.internal", "1317">>,
                 <<"node-1.internal", "26657">>, <<"node-1.internal", "9090">>),
      ConfigNode(<<"node-2">>, <<"haproxy", "1317">>, <<"haproxy", "26657">>, <<"">>)>>

\* node-1 removed
InternalsOne ==
    <<ConfigNode(<<"node-2">>, <<"node-2.internal", "1317">>, <<"">>,
                 <<"node-2.internal", "9090">>)>>

InternalsChoices == {InternalsSchemes, InternalsBare, InternalsOne}

(***************************************************************************)
(* Height store                                                            *)
(***************************************************************************)
makeKey(network, node, endpointType) == network \o node \o endpointType

parseKey(key) ==
    IF Len(key) >= 3
    THEN <<SubSeq(key, 1, 1), SubSeq(key, 2, 2), SubSeq(key, 3, Len(key))>>
    ELSE <<<<>>, <<>>, <<>>>>

NewNodeMetrics ==
    [Height |-> 0, Source |-> "", LatencyHistory |-> <<>>, AvgLatency |-> 0,
     WebSocketAvailable |-> FALSE]

\* LoadOrStore
LoadOrStore(store, key) == IF key \in DOMAIN store THEN store[key] ELSE NewNodeMetrics

\* the window that drops the newest sample once it is full
AppendLatencyDropsNewest(history, latency) ==
    IF Len(history) >= LatencyHistorySize THEN history ELSE Append(history, latency)

\* append, then keep the last LatencyHistorySize measurements
AppendLatency(history, latency) ==
    LET appended == Append(history, latency) IN
    IF Len(appended) > LatencyHistorySize THEN Tail(appended) ELSE appended

Update(store, network, node, endpointType, height, latency, source) ==
    LET key == makeKey(network, node, endpointType)
        m == LoadOrStore(store, key)
        hist == AppendLatency(m.LatencyHistory, latency)
        new == [m EXCEPT !.Height = height, !.Source = source,
                         !.LatencyHistory = hist,
                         !.AvgLatency = SumSeq(hist) \div Len(hist)]
    IN [k \in DOMAIN store \cup {key} |-> IF k = key THEN new ELSE store[k]]

HeightStoreUpdateWebSocketAvailability(store, network, node, endpointType, available) ==
    LET key == makeKey(network, node, endpointType)
        m == LoadOrStore(store, key)
    IN [k \in DOMAIN store \cup {key} |->
          IF k = key THEN [m EXCEPT !.WebSocketAvailable = available] ELSE store[k]]

\* map node name -> copy of the metrics, for the keys of (network, type)
GetByNetwork(store, network, endpointType) ==
    LET keys == { k \in DOMAIN store :
                    parseKey(k)[1] = network /\ parseKey(k)[3] = endpointType }
        names == { parseKey(k)[2] : k \in keys }
    IN [n \in names |-> store[CHOOSE k \in keys : parseKey(k)[2] = n]]

(***************************************************************************)
(* External endpoint store                                                 *)
(***************************************************************************)
makeEndpointKey(externalName, ringURL, network, endpointType, url) ==
    externalName \o ringURL \o network \o endpointType \o url

KeyOf(a) == makeEndpointKey(a.ExternalName, a.RingURL, a.Network, a.Type, a.URL)

\* an entry that is created validated and working
NewExternalEndpointWorking(a) ==
    [URL |-> a.URL, Network |-> a.Network, Type |-> a.Type,
     ExternalName |-> a.ExternalName, RingURL |-> a.RingURL,
     IsValidated |-> TRUE, IsWorking |-> TRUE, ErrorCount |-> 0,
     WebSocketAvailable |-> FALSE, Height |-> 0, Latency |-> 0]

NewExternalEndpoint(a) ==
    [URL |-> a.URL, Network |-> a.Network, Type |-> a.Type,
     ExternalName |-> a.ExternalName, RingURL |-> a.RingURL,
     IsValidated |-> FALSE, IsWorking |-> FALSE, ErrorCount |-> 0,
     WebSocketAvailable |-> FALSE, Height |-> 0, Latency |-> 0]

\* a StoreAdvertised that writes a fresh entry over the one it finds
StoreAdvertisedOpResets(eps, a) ==
    LET key == KeyOf(a) IN
    [k \in DOMAIN eps \cup {key} |-> IF k = key THEN NewExternalEndpoint(a) ELSE eps[k]]

StoreAdvertisedOp(eps, a) ==
    LET key == KeyOf(a) IN
    IF key \in DOMAIN eps
    THEN [eps EXCEPT ![key].URL = a.URL]
    ELSE [k \in DOMAIN eps \cup {key} |-> IF k = key THEN NewExternalEndpoint(a) ELSE eps[k]]

\* a validation that leaves the error counter as it is
MarkValidatedOpKeepsErrorCount(eps, a, height, latency) ==
    LET key == KeyOf(a) IN
    IF key \notin DOMAIN eps
    THEN eps
    ELSE [eps EXCEPT ![key].IsValidated = TRUE, ![key].IsWorking = TRUE,
                     ![key].Height = height, ![key].Latency = latency]

MarkValidatedOp(eps, a, height, latency) ==
    LET key == KeyOf(a) IN
    IF key \notin DOMAIN eps
    THEN eps
    ELSE [eps EXCEPT ![key].IsValidated = TRUE, ![key].IsWorking = TRUE,
                     ![key].ErrorCount = 0, ![key].Height = height,
                     ![key].Latency = latency]

\* a failed validation that clears IsValidated and leaves IsWorking
MarkValidationFailedOpKeepsWorking(eps, a) ==
    LET key == KeyOf(a) IN
    IF key \notin DOMAIN eps
    THEN eps
    ELSE [eps EXCEPT ![key].IsValidated = FALSE]

MarkValidationFailedOp(eps, a) ==
    LET key == KeyOf(a) IN
    IF key \notin DOMAIN eps
    THEN eps
    ELSE [eps EXCEPT ![key].IsValidated = FALSE, ![key].IsWorking = FALSE]

\* the count without the threshold test
CountErrorKeepsWorking(ep) ==
    [ep EXCEPT !.ErrorCount = ep.ErrorCount + 1]

\* the threshold test with > in place of >=
CountErrorAboveThreshold(ep) ==
    LET n == ep.ErrorCount + 1 IN
    [ep EXCEPT !.ErrorCount = n,
               !.IsWorking = IF n > ErrorThreshold /\ ep.IsWorking THEN FALSE ELSE ep.IsWorking]

\* ep.ErrorCount++ followed by the threshold test, shared by
\* IncrementErrorCount and TrackProxyError
CountError(ep) ==
    LET n == ep.ErrorCount + 1 IN
    [ep EXCEPT !.ErrorCount = n,
               !.IsWorking = IF n >= ErrorThreshold /\ ep.IsWorking THEN FALSE ELSE ep.IsWorking]

IncrementErrorCountOp(eps, a) ==
    LET key == KeyOf(a) IN
    IF key \notin DOMAIN eps THEN eps ELSE [eps EXCEPT ![key] = CountError(eps[key])]

RemoveEndpointOp(eps, a) ==
    [k \in DOMAIN eps \ {KeyOf(a)} |-> eps[k]]

UpdateWebSocketAvailabilityOp(eps, a, available) ==
    LET key == KeyOf(a) IN
    IF key \notin DOMAIN eps THEN eps ELSE [eps EXCEPT ![key].WebSocketAvailable = available]

\* keys of the entries the range of TrackProxyError can stop at
TrackMatches(eps, network, endpointType, url) ==
    { k \in DOMAIN eps :
        eps[k].Network = network /\ eps[k].Type = endpointType /\ eps[k].URL = url }

\* the entry the map range reaches first is counted, the others are not
TrackProxyErrorOp(eps, key) == [eps EXCEPT ![key] = CountError(eps[key])]

\* the filter without the IsWorking test
GetValidatedEndpointsIgnoringWorking(eps, network, endpointType) ==
    { k \in DOMAIN eps :
        /\ eps[k].Network = network
        /\ eps[k].Type = endpointType
        /\ eps[k].IsValidated }

\* copies of the validated and working entries of (network, type)
GetValidatedEndpoints(eps, network, endpointType) ==
    { k \in DOMAIN eps :
        /\ eps[k].Network = network
        /\ eps[k].Type = endpointType
        /\ eps[k].IsValidated
        /\ eps[k].IsWorking }

GetFailedEndpoints(eps) ==
    { k \in DOMAIN eps : eps[k].IsValidated /\ ~eps[k].IsWorking }

(***************************************************************************)
(* Selector                                                                *)
(***************************************************************************)
\* a nil pointer is the empty sequence, a non-nil one a one-element sequence
Nil == <<>>
Ref(x) == <<x>>

\* the threshold taken from the configuration with no default
ThresholdAsConfigured(cfg) == cfg.ExternalFailoverThreshold

\* threshold := cfg.ExternalFailoverThreshold; if threshold == 0 { threshold = 2 }
Threshold(cfg) ==
    IF cfg.ExternalFailoverThreshold = 0 THEN DefaultThreshold ELSE cfg.ExternalFailoverThreshold

\* var max int64; for ... if h > max { max = h }, over a sequence of heights
RECURSIVE MaxHeightOf(_)
MaxHeightOf(hs) ==
    IF hs = <<>> THEN 0
    ELSE LET rest == MaxHeightOf(SubSeq(hs, 1, Len(hs) - 1))
             last == hs[Len(hs)]
         IN IF last > rest THEN last ELSE rest

NodeHeights(nodes) == [i \in 1..Len(nodes) |-> nodes[i].metrics.Height]

\* the internal candidates, in the order in which the map range yields them
InternalNodes(store, network, endpointType, order) ==
    LET nodesMap == GetByNetwork(store, network, endpointType)
    IN [i \in 1..Len(order) |-> [name |-> order[i], metrics |-> nodesMap[order[i]]]]

\* the synthetic node entry of an external endpoint
ExternalNode(ep) ==
    [name |-> <<"ext">> \o ep.URL,
     metrics |-> [Height |-> ep.Height, Source |-> "external", LatencyHistory |-> <<>>,
                  AvgLatency |-> ep.Latency, WebSocketAvailable |-> ep.WebSocketAvailable]]

\* the admission test with >= in place of >
ShouldAddExternalsAtThreshold(maxInternalHeight, maxExternalHeight, threshold) ==
    maxInternalHeight = 0 \/ maxExternalHeight >= maxInternalHeight + threshold

ShouldAddExternals(maxInternalHeight, maxExternalHeight, threshold) ==
    maxInternalHeight = 0 \/ maxExternalHeight > maxInternalHeight + threshold

\* the candidate list that leaves the internal nodes out once externals are
\* admitted with no internal height
CandidateListExternalsReplace(internal, externalEndpoints, threshold) ==
    LET maxInternalHeight == MaxHeightOf(NodeHeights(internal))
        maxExternalHeight ==
            MaxHeightOf([i \in 1..Len(externalEndpoints) |-> externalEndpoints[i].Height])
        externals == [i \in 1..Len(externalEndpoints) |-> ExternalNode(externalEndpoints[i])]
    IN IF ShouldAddExternals(maxInternalHeight, maxExternalHeight, threshold)
          /\ Len(externalEndpoints) > 0
       THEN (IF maxInternalHeight = 0 THEN externals ELSE internal \o externals)
       ELSE internal

\* the combined candidate list: the internal nodes, then the admitted externals
CandidateList(internal, externalEndpoints, threshold) ==
    LET maxInternalHeight == MaxHeightOf(NodeHeights(internal))
        maxExternalHeight ==
            MaxHeightOf([i \in 1..Len(externalEndpoints) |-> externalEndpoints[i].Height])
    IN IF ShouldAddExternals(maxInternalHeight, maxExternalHeight, threshold)
          /\ Len(externalEndpoints) > 0
       THEN internal \o [i \in 1..Len(externalEndpoints) |-> ExternalNode(externalEndpoints[i])]
       ELSE internal

\* the height filter left out: every candidate goes on to the latency scan
MaxHeightNodesUnfiltered(nodes, maxHeight) == nodes

\* Step 2: the nodes at the maximum height, in list order
RECURSIVE MaxHeightNodes(_, _)
MaxHeightNodes(nodes, maxHeight) ==
    IF nodes = <<>> THEN <<>>
    ELSE (IF Head(nodes).metrics.Height = maxHeight THEN <<Head(nodes)>> ELSE <<>>)
         \o MaxHeightNodes(Tail(nodes), maxHeight)

\* the latency scan that never lowers minLatency: the last node wins
LowestLatencyLastSeen(nodes, minLatency, best) ==
    IF nodes = <<>> THEN best ELSE Ref(nodes[Len(nodes)])

\* the latency scan that keeps the first node instead of the fastest
LowestLatencyFirstSeen(nodes, minLatency, best) ==
    IF nodes = <<>> THEN best ELSE Ref(Head(nodes))

\* Step 3: scan for the lowest latency; a strictly lower latency replaces the
\* best so far.  best is Nil until a node is below minLatency.
RECURSIVE LowestLatency(_, _, _)
LowestLatency(nodes, minLatency, best) ==
    IF nodes = <<>> THEN best
    ELSE IF Head(nodes).metrics.AvgLatency < minLatency
         THEN LowestLatency(Tail(nodes), Head(nodes).metrics.AvgLatency, Ref(Head(nodes)))
         ELSE LowestLatency(Tail(nodes), minLatency, best)

\* the reason the selector test expects for nodes that share the height
ReasonRoundRobin(nodes, maxHeightNodes) ==
    IF Len(nodes) = 1 THEN "only_available"
    ELSE IF Len(maxHeightNodes) = 1 THEN "height_winner"
    ELSE "round_robin"

\* the reason with the two tests in the wrong order
ReasonHeightFirst(nodes, maxHeightNodes) ==
    IF Len(maxHeightNodes) = 1 THEN "height_winner"
    ELSE IF Len(nodes) = 1 THEN "only_available"
    ELSE "latency_tiebreaker"

Reason(nodes, maxHeightNodes) ==
    IF Len(nodes) = 1 THEN "only_available"
    ELSE IF Len(maxHeightNodes) = 1 THEN "height_winner"
    ELSE "latency_tiebreaker"

\* the zero-height test left out
ZeroHeightNever(maxHeight) == FALSE

\* if maxHeight == 0: all nodes have zero height
ZeroHeight(maxHeight) == maxHeight = 0

NoNode == [metrics |-> Nil, name |-> <<>>, decision |-> Nil]

\* the part of GetBestNode after the candidate list is built
SelectBest(nodes) ==
    IF Len(nodes) = 0 THEN NoNode
    ELSE LET maxHeight == MaxHeightOf(NodeHeights(nodes)) IN
         IF ZeroHeight(maxHeight) THEN NoNode
         ELSE LET maxHeightNodes == MaxHeightNodes(nodes, maxHeight)
                  best == LowestLatency(maxHeightNodes, MaxInt64, Nil)
                  bestNode == best[1]
              IN [metrics |-> Ref(bestNode.metrics),
                  name |-> bestNode.name,
                  decision |-> Ref([SelectedNode |-> bestNode.name,
                                    Reason |-> Reason(nodes, maxHeightNodes),
                                    Candidates |-> Len(nodes),
                                    MaxHeight |-> maxHeight,
                                    SelectedLatency |-> bestNode.metrics.AvgLatency])]

\* GetBestNode(network, endpointType), with the two map ranges visiting the
\* internal nodes in the order internalOrder and the validated endpoints in the
\* order externalOrder.  The record keeps what the call read next to what it
\* returned.
GetBestNode(store, eps, cfg, network, endpointType, internalOrder, externalOrder) ==
    LET internal == InternalNodes(store, network, endpointType, internalOrder)
        externalEndpoints == [i \in 1..Len(externalOrder) |-> eps[externalOrder[i]]]
        threshold == Threshold(cfg)
        nodes == CandidateList(internal, externalEndpoints, threshold)
    IN [network |-> network, endpointType |-> endpointType,
        internal |-> internal, externalEndpoints |-> externalEndpoints,
        allEndpoints |-> { eps[k] : k \in DOMAIN eps },
        threshold |-> threshold, nodes |-> nodes, result |-> SelectBest(nodes)]

(***************************************************************************)
(* Actions.  The store operations leave `run' to the specification that    *)
(* uses them: Spec does not observe it, SpecStore does.                    *)
(***************************************************************************)
Idle == [pc |-> "idle"]

EmptyMap == [k \in {} |-> Nil]

\* the goroutines that call the height store concurrently: two health checks
\* that update, a caller of Get and a caller of GetByNetwork
Updaters == {"update-1", "update-2"}
Threads == Updaters \cup {"get", "getByNetwork"}

\* a caller that holds no returned value
NothingHeld == [metrics |-> Nil, endpoint |-> Nil]

\* a goroutine outside any height-store call
NoCall ==
    [pc |-> "idle", key |-> Nil, arg |-> Nil, ret |-> Nil, result |-> EmptyMap,
     must |-> {}, visited |-> {}, calls |-> 0]

NoRun == [key |-> Nil, op |-> "", n |-> 0]

\* no pass of the external checker is running: neither CheckExternal nor
\* RecoverFailedEndpoints
NoPass == [check |-> Idle, recover |-> Idle]

Init ==
    /\ heightStore = EmptyMap
    /\ endpoints = EmptyMap
    /\ config = [ExternalFailoverThreshold |-> 0, Internals |-> InternalsSchemes]
    /\ nodeAvailable = EmptyMap
    /\ online = {Node1.Name, Node2.Name}
    /\ sel = Idle
    /\ run = NoRun
    /\ updates = EmptyMap
    /\ mu = EmptyMap
    /\ threads = [t \in Threads |-> NoCall]
    /\ held = NothingHeld
    /\ resolve = Nil
    /\ req = Idle
    /\ pass = NoPass
    /\ stream = Idle
    /\ tunnel = Idle
    /\ server = Idle
    /\ connPool = Idle
    /\ rings = Idle

\* whether the model still updates the key of (node, type)
MayUpdate(node, endpointType) ==
    LET key == makeKey(node.Network, node.Name, endpointType) IN
    key \in DOMAIN heightStore => Len(heightStore[key].LatencyHistory) < MaxSamples

HeightStoreUpdate(node, endpointType, height, latency) ==
    /\ sel = Idle
    /\ MayUpdate(node, endpointType)
    /\ heightStore' = Update(heightStore, node.Network, node.Name, endpointType,
                             height, latency, "internal")
    /\ UNCHANGED <<endpoints, config, nodeAvailable, online, sel>>

StoreAdvertised(a) ==
    /\ sel = Idle
    /\ endpoints' = StoreAdvertisedOp(endpoints, a)
    /\ UNCHANGED <<heightStore, config, nodeAvailable, online, sel>>

MarkValidated(a, height, latency) ==
    /\ sel = Idle
    /\ endpoints' = MarkValidatedOp(endpoints, a, height, latency)
    /\ UNCHANGED <<heightStore, config, nodeAvailable, online, sel>>

MarkValidationFailed(a) ==
    /\ sel = Idle
    /\ endpoints' = MarkValidationFailedOp(endpoints, a)
    /\ UNCHANGED <<heightStore, config, nodeAvailable, online, sel>>

IncrementErrorCount(a) ==
    /\ sel = Idle
    /\ KeyOf(a) \in DOMAIN endpoints => endpoints[KeyOf(a)].ErrorCount < MaxErrorCount
    /\ endpoints' = IncrementErrorCountOp(endpoints, a)
    /\ UNCHANGED <<heightStore, config, nodeAvailable, online, sel>>

TrackProxyError(network, endpointType, url) ==
    /\ sel = Idle
    /\ LET matches == TrackMatches(endpoints, network, endpointType, url) IN
       IF matches = {}
       THEN UNCHANGED endpoints
       ELSE \E key \in matches :
              /\ endpoints[key].ErrorCount < MaxErrorCount
              /\ endpoints' = TrackProxyErrorOp(endpoints, key)
    /\ UNCHANGED <<heightStore, config, nodeAvailable, online, sel>>

UpdateWebSocketAvailability(a, available) ==
    /\ sel = Idle
    /\ endpoints' = UpdateWebSocketAvailabilityOp(endpoints, a, available)
    /\ UNCHANGED <<heightStore, config, nodeAvailable, online, sel>>

RemoveEndpoint(a) ==
    /\ sel = Idle
    /\ endpoints' = RemoveEndpointOp(endpoints, a)
    /\ UNCHANGED <<heightStore, config, nodeAvailable, online, sel>>

\* Loader.onConfigChange: a valid new configuration replaces the snapshot
ReloadConfig(threshold) ==
    /\ sel = Idle
    /\ config' = [config EXCEPT !.ExternalFailoverThreshold = threshold]
    /\ UNCHANGED <<heightStore, endpoints, nodeAvailable, online, sel>>

\* a proxy calls the selector; the call's result is held until it returns
Select(network, endpointType) ==
    /\ sel = Idle
    /\ \E internalOrder \in Perms(DOMAIN GetByNetwork(heightStore, network, endpointType)),
          externalOrder \in Perms(GetValidatedEndpoints(endpoints, network, endpointType)) :
         sel' = [pc |-> "returned"] @@
                GetBestNode(heightStore, endpoints, config, network, endpointType,
                            internalOrder, externalOrder)
    /\ UNCHANGED <<heightStore, endpoints, config, nodeAvailable, online>>

SelectReturn ==
    /\ sel # Idle
    /\ sel' = Idle
    /\ UNCHANGED <<heightStore, endpoints, config, nodeAvailable, online>>

(***************************************************************************)
(* Spec: the selector over the two stores.  The height store is written    *)
(* for the api keys of both nodes and the rpc key of node-1; the endpoint   *)
(* store by the operations the checkers and proxies call, for endpoint E1. *)
(***************************************************************************)
Next ==
    \/ \E n \in {Node1, Node2}, h \in InternalHeights, l \in Latencies :
         HeightStoreUpdate(n, <<"api">>, h, l) /\ UNCHANGED aux
    \/ HeightStoreUpdate(Node1, <<"rpc">>, MaxInternalHeight, 1) /\ UNCHANGED aux
    \/ StoreAdvertised(E1) /\ UNCHANGED aux
    \/ \E h \in Heights, l \in ExtLatencies : MarkValidated(E1, h, l) /\ UNCHANGED aux
    \/ MarkValidationFailed(E1) /\ UNCHANGED aux
    \/ TrackProxyError(E1.Network, E1.Type, E1.URL) /\ UNCHANGED aux
    \/ \E t \in Thresholds : ReloadConfig(t) /\ UNCHANGED aux
    \/ \E t \in Types : Select(Pocket, t) /\ UNCHANGED aux
    \/ SelectReturn /\ UNCHANGED aux

Spec == Init /\ [][Next]_vars

(***************************************************************************)
(* SpecStore: the external endpoint store under any interleaving of its    *)
(* operations, for the endpoints E1 and E2 (one URL, two rings) and E3.    *)
(* `run' observes the calls: after MarkValidated of a stored key it holds  *)
(* that key, and counts the IncrementErrorCount calls for the key, or the  *)
(* TrackProxyError calls for its (network, type, URL), that follow with no *)
(* other call in between.                                                  *)
(***************************************************************************)
Address(a) == <<a.Network, a.Type, a.URL>>

RunValidated(a) ==
    IF KeyOf(a) \in DOMAIN endpoints
    THEN [key |-> KeyOf(a), op |-> "", n |-> 0]
    ELSE NoRun

RunCounted(op, continues) ==
    IF continues /\ run.op \in {"", op}
    THEN [run EXCEPT !.op = op, !.n = @ + 1]
    ELSE NoRun

NextStore ==
    \/ \E a \in {E1, E2, E3} :
         StoreAdvertised(a) /\ run' = NoRun /\ UNCHANGED auxStore
    \/ \E a \in {E1, E2}, h \in StoreHeights, l \in ExtLatencies :
         MarkValidated(a, h, l) /\ run' = RunValidated(a) /\ UNCHANGED auxStore
    \/ \E l \in ExtLatencies :
         MarkValidated(E3, 1, l) /\ run' = RunValidated(E3) /\ UNCHANGED auxStore
    \/ \E a \in {E1, E2, E3} :
         MarkValidationFailed(a) /\ run' = NoRun /\ UNCHANGED auxStore
    \/ \E a \in {E1, E2, E3} :
         /\ IncrementErrorCount(a)
         /\ run' = RunCounted("IncrementErrorCount", run.key = KeyOf(a))
         /\ UNCHANGED auxStore
    \/ \E a \in {E1, E3} :
         /\ TrackProxyError(a.Network, a.Type, a.URL)
         /\ run' = RunCounted("TrackProxyError",
                              /\ run.key # Nil
                              /\ Address(endpoints[run.key]) = Address(a))
         /\ UNCHANGED auxStore
    \/ \E b \in BOOLEAN :
         UpdateWebSocketAvailability(E1, b) /\ run' = NoRun /\ UNCHANGED auxStore
    \/ \E a \in {E1, E2, E3} :
         RemoveEndpoint(a) /\ run' = NoRun /\ UNCHANGED auxStore

SpecStore == Init /\ [][NextStore]_vars

(***************************************************************************)
(* SpecHealth: the internal health checks and the selector.  A backend     *)
(* goes offline and comes back; a probe of an offline backend fails with a *)
(* network error, a probe of an online one succeeds or fails with a        *)
(* non-200 status.                                                         *)
(***************************************************************************)
GaugeKey(node, endpointType) == <<node.Network, node.Name, endpointType>>

SetGauge(gauge, key, value) ==
    [k \in DOMAIN gauge \cup {key} |-> IF k = key THEN value ELSE gauge[k]]

\* APIChecker.CheckNode, the probe answered 200 with a height
APICheckNodeOK(node, height, latency) ==
    /\ sel = Idle
    /\ node.Name \in online
    /\ MayUpdate(node, <<"api">>)
    /\ heightStore' = Update(heightStore, node.Network, node.Name, <<"api">>,
                             height, latency, "internal")
    /\ nodeAvailable' = SetGauge(nodeAvailable, GaugeKey(node, <<"api">>), 1)
    /\ UNCHANGED <<endpoints, config, online, sel>>

\* RPCChecker.CheckNode, the probe answered 200 with a height; the WebSocket
\* probe that follows sets the flag
RPCCheckNodeOK(node, height, latency, wsAvailable) ==
    /\ sel = Idle
    /\ node.Name \in online
    /\ MayUpdate(node, <<"rpc">>)
    /\ heightStore' = HeightStoreUpdateWebSocketAvailability(
                          Update(heightStore, node.Network, node.Name, <<"rpc">>,
                                 height, latency, "internal"),
                          node.Network, node.Name, <<"rpc">>, wsAvailable)
    /\ nodeAvailable' = SetGauge(nodeAvailable, GaugeKey(node, <<"rpc">>), 1)
    /\ UNCHANGED <<endpoints, config, online, sel>>

\* CheckNode of either checker, the request failed ("network") or the status
\* was not 200 ("http_status"): the error is recorded, the gauge is set to 0
\* and the height store is not touched
CheckNodeFailed(node, endpointType, errorType) ==
    /\ sel = Idle
    /\ errorType = "network" <=> node.Name \notin online
    /\ nodeAvailable' = SetGauge(nodeAvailable, GaugeKey(node, endpointType), 0)
    /\ UNCHANGED <<heightStore, endpoints, config, online, sel>>

GoOffline(node) ==
    /\ sel = Idle
    /\ node.Name \in online
    /\ online' = online \ {node.Name}
    /\ UNCHANGED <<heightStore, endpoints, config, nodeAvailable, sel>>

GoOnline(node) ==
    /\ sel = Idle
    /\ node.Name \notin online
    /\ online' = online \cup {node.Name}
    /\ UNCHANGED <<heightStore, endpoints, config, nodeAvailable, sel>>

NextHealth ==
    \/ \E n \in {Node1, Node2}, h \in InternalHeights, l \in Latencies :
         APICheckNodeOK(n, h, l) /\ UNCHANGED aux
    \/ \E h \in InternalHeights, l \in Latencies, ws \in BOOLEAN :
         RPCCheckNodeOK(Node1, h, l, ws) /\ UNCHANGED aux
    \/ \E n \in {Node1, Node2}, e \in {"network", "http_status"} :
         CheckNodeFailed(n, <<"api">>, e) /\ UNCHANGED aux
    \/ \E e \in {"network", "http_status"} :
         CheckNodeFailed(Node1, <<"rpc">>, e) /\ UNCHANGED aux
    \/ \E n \in {Node1, Node2} : GoOffline(n) /\ UNCHANGED aux
    \/ \E n \in {Node1, Node2} : GoOnline(n) /\ UNCHANGED aux
    \/ \E t \in Types : Select(Pocket, t) /\ UNCHANGED aux
    \/ SelectReturn /\ UNCHANGED aux

SpecHealth == Init /\ [][NextHealth]_vars

(***************************************************************************)
(* Properties of the selector, checked under Spec                          *)
(***************************************************************************)
Returned == sel.pc = "returned"

\* the largest element of a set of heights, 0 for the empty set
SetMax(S) == IF S = {} THEN 0 ELSE CHOOSE m \in S : \A x \in S : x <= m

\* positions of the candidate list by source
ExternalPositions == { i \in 1..Len(sel.nodes) : sel.nodes[i].metrics.Source = "external" }
InternalPositions == { i \in 1..Len(sel.nodes) : sel.nodes[i].metrics.Source = "internal" }

\* the stores are not written while the call is in progress, so the keys the
\* call could read are those of the current state
InternalKeys ==
    { k \in DOMAIN heightStore :
        Len(k) = 3 /\ <<k[1]>> = sel.network /\ <<k[3]>> = sel.endpointType }
EligibleKeys ==
    { k \in DOMAIN endpoints :
        /\ endpoints[k].Network = sel.network
        /\ endpoints[k].Type = sel.endpointType
        /\ endpoints[k].IsValidated
        /\ endpoints[k].IsWorking }

MaxInternal == SetMax({ heightStore[k].Height : k \in InternalKeys })
MaxExternal == SetMax({ endpoints[k].Height : k \in EligibleKeys })
Admit == MaxInternal = 0 \/ MaxExternal > MaxInternal + sel.threshold

C2_SelectedHasMaxHeight ==
    (Returned /\ sel.result.metrics # Nil) =>
      \A i \in 1..Len(sel.nodes) :
        sel.nodes[i].metrics.Height <= sel.result.metrics[1].Height

\* a lower candidate with a lower latency than the selected node exists
C2_Witness ==
    /\ Returned
    /\ sel.result.metrics # Nil
    /\ \E i \in 1..Len(sel.nodes) :
         /\ sel.nodes[i].metrics.Height < sel.result.metrics[1].Height
         /\ sel.nodes[i].metrics.Height > 0
         /\ sel.nodes[i].metrics.AvgLatency < sel.result.metrics[1].AvgLatency

C4_OnlyValidatedWorkingExternals ==
    Returned =>
      \A i \in ExternalPositions :
        \E k \in DOMAIN endpoints :
          /\ endpoints[k].IsValidated
          /\ endpoints[k].IsWorking
          /\ endpoints[k].Network = sel.network
          /\ endpoints[k].Type = sel.endpointType
          /\ sel.nodes[i].name = <<"ext">> \o endpoints[k].URL
          /\ sel.nodes[i].metrics.Height = endpoints[k].Height

\* an endpoint that is not eligible is higher than every internal node, and an
\* internal node is returned
C4_Witness ==
    /\ Returned
    /\ sel.result.metrics # Nil
    /\ sel.result.metrics[1].Source = "internal"
    /\ \E k \in DOMAIN endpoints :
         /\ endpoints[k].Type = sel.endpointType
         /\ ~(endpoints[k].IsValidated /\ endpoints[k].IsWorking)
         /\ endpoints[k].Height > MaxInternal + sel.threshold

\* C9: GetBestNode returns (nil, "", nil) exactly when the candidate list is
\* empty or every candidate has height 0; otherwise the metrics, the
\* identifier and the decision are all present.
C9_NilExactlyWhenNoViableCandidate ==
    Returned =>
      LET noViable == \A i \in 1..Len(sel.nodes) : sel.nodes[i].metrics.Height = 0 IN
      /\ noViable => sel.result = NoNode
      /\ ~noViable => /\ sel.result.metrics # Nil
                      /\ sel.result.name # <<>>
                      /\ sel.result.decision # Nil

\* candidates exist and all of them are at height 0
C9_Witness ==
    /\ Returned
    /\ Len(sel.nodes) >= 2
    /\ \A i \in 1..Len(sel.nodes) : sel.nodes[i].metrics.Height = 0
    /\ sel.result = NoNode

C5_ThirdIncrementStopsWorking ==
    (run.key # Nil /\ run.op \in {"", "IncrementErrorCount"}) =>
      LET ep == endpoints[run.key] IN
      /\ ep.ErrorCount = run.n
      /\ run.n = 0 => (ep.IsValidated /\ ep.IsWorking)
      /\ run.n \in {1, 2} => ep.IsWorking
      /\ run.n >= 3 => ~ep.IsWorking

\* the third consecutive IncrementErrorCount has been made
C5_Witness ==
    /\ run.key # Nil
    /\ run.op = "IncrementErrorCount"
    /\ run.n = 3
    /\ ~endpoints[run.key].IsWorking

\* C6: in every state of the endpoint store, an endpoint that is working is
\* validated.
C6_WorkingImpliesValidated ==
    \A k \in DOMAIN endpoints : endpoints[k].IsWorking => endpoints[k].IsValidated

\* one endpoint has failed its validation after errors were counted, next to
\* one that is working with errors counted and one that stopped working
C6_Witness ==
    /\ \E k \in DOMAIN endpoints :
         ~endpoints[k].IsValidated /\ endpoints[k].ErrorCount > 0 /\ endpoints[k].Height > 0
    /\ \E k \in DOMAIN endpoints : endpoints[k].IsWorking /\ endpoints[k].ErrorCount > 0
    /\ \E k \in DOMAIN endpoints : endpoints[k].IsValidated /\ ~endpoints[k].IsWorking

\* C7: after an endpoint has been validated, 3 consecutive TrackProxyError
\* calls for its (network, protocol, URL) exclude it from the candidates:
\* GetValidatedEndpoints no longer returns it.
C7_ThreeProxyErrorsExclude ==
    (run.key # Nil /\ run.op = "TrackProxyError" /\ run.n >= 3) =>
      run.key \notin GetValidatedEndpoints(endpoints, endpoints[run.key].Network,
                                           endpoints[run.key].Type)

(***************************************************************************)
(* Properties of the health checks, checked under SpecHealth               *)
(***************************************************************************)
\* C8: GetBestNode does not return an internal node whose last health check
\* failed: once a node is offline or fails its check, the calls that follow
\* select another candidate.
C8_FailedNodeNotSelected ==
    (Returned /\ sel.result.metrics # Nil) =>
      LET key == <<sel.network, sel.result.name, sel.endpointType>> IN
      ~(key \in DOMAIN nodeAvailable /\ nodeAvailable[key] = 0)

(***************************************************************************)
(* Scenario properties of the selector, checked under Spec                 *)
(***************************************************************************)
\* every internal entry of the (network, protocol) is at height 0 and exactly
\* one endpoint is eligible, at a height above 0
OnlyExternalHasHeight ==
    /\ Returned
    /\ MaxInternal = 0
    /\ Cardinality(EligibleKeys) = 1
    /\ MaxExternal > 0

\* C11: when every internal node of the (network, protocol) is recorded at
\* height 0 and one validated and working external endpoint is at height
\* h > 0, GetBestNode returns the identifier ext:<url> of that endpoint with
\* height h; the candidate count is the number of internal entries plus one.
C11_ExternalSelectedWhenInternalsAtZero ==
    OnlyExternalHasHeight =>
      LET k == CHOOSE key \in EligibleKeys : TRUE IN
      /\ sel.result.name = <<"ext">> \o endpoints[k].URL
      /\ sel.result.metrics # Nil
      /\ sel.result.metrics[1].Height = endpoints[k].Height
      /\ sel.result.decision[1].Candidates = Cardinality(InternalKeys) + 1

\* two internal nodes at height 0 next to the endpoint that is returned
C11_Witness ==
    /\ OnlyExternalHasHeight
    /\ Cardinality(InternalKeys) = 2
    /\ sel.result.metrics # Nil
    /\ sel.result.metrics[1].Source = "external"

\* C11 as stated: the same result with a candidate count of 1
C11_CandidateCountOne ==
    OnlyExternalHasHeight =>
      LET k == CHOOSE key \in EligibleKeys : TRUE IN
      /\ sel.result.name = <<"ext">> \o endpoints[k].URL
      /\ sel.result.metrics # Nil
      /\ sel.result.metrics[1].Height = endpoints[k].Height
      /\ sel.result.decision[1].Candidates = 1

(***************************************************************************)
(* SpecWindow: the latency window of one height-store key, node-1's rpc    *)
(* key, under a long sequence of Update calls; the WebSocket flag of the   *)
(* key is set in between, which creates the key when it is absent.         *)
(* `updates' logs the latencies passed to Update.                          *)
(***************************************************************************)
Logged(key) == IF key \in DOMAIN updates THEN updates[key] ELSE <<>>

WindowUpdate(node, endpointType, height, latency) ==
    LET key == makeKey(node.Network, node.Name, endpointType) IN
    /\ Len(Logged(key)) < MaxUpdates
    /\ heightStore' = Update(heightStore, node.Network, node.Name, endpointType,
                             height, latency, "internal")
    /\ updates' = [k \in DOMAIN updates \cup {key} |->
                     IF k = key THEN Append(Logged(key), latency) ELSE updates[k]]
    /\ UNCHANGED auxWindow

WindowSetWebSocket(node, endpointType, available) ==
    /\ heightStore' = HeightStoreUpdateWebSocketAvailability(
                          heightStore, node.Network, node.Name, endpointType, available)
    /\ UNCHANGED <<auxWindow, updates>>

NextWindow ==
    \/ \E l \in WindowLatencies : WindowUpdate(Node1, <<"rpc">>, 1, l)
    \/ \E b \in BOOLEAN : WindowSetWebSocket(Node1, <<"rpc">>, b)

SpecWindow == Init /\ [][NextWindow]_vars

Min(a, b) == IF a < b THEN a ELSE b

\* C12: for every height-store key, after any sequence of Update calls, the
\* latency window holds at most 10 samples, its length is min(number of
\* updates of the key, 10), and it holds the most recent samples in order:
\* the 11th sample evicts the oldest one.
C12_WindowHoldsLastTen ==
    \A key \in DOMAIN heightStore :
      LET window == heightStore[key].LatencyHistory
          log == Logged(key)
      IN /\ Len(window) <= LatencyHistorySize
         /\ Len(window) = Min(Len(log), LatencyHistorySize)
         /\ window = SubSeq(log, Len(log) - Len(window) + 1, Len(log))

\* the 11th sample has arrived and the first one, a different value, is gone
C12_Witness ==
    \E key \in DOMAIN heightStore :
      /\ Len(Logged(key)) = LatencyHistorySize + 1
      /\ heightStore[key].LatencyHistory = Tail(Logged(key))
      /\ Logged(key)[1] # Logged(key)[2]
      /\ Logged(key)[1] # Logged(key)[LatencyHistorySize + 1]

(***************************************************************************)
(* SpecMutex: the height store under concurrent calls, one step per        *)
(* statement.  Two health-check goroutines call Update for node-1's rpc    *)
(* key while one goroutine calls Get and another GetByNetwork.  Update     *)
(* writes the fields of the entry in place, one after the other, between   *)
(* metrics.mu.Lock() and the deferred Unlock().                            *)
(***************************************************************************)
\* (height, latency) pairs the health checks report; the latency tells which
\* height it came with
MutexSamples == {[height |-> 1, latency |-> 1], [height |-> 2, latency |-> 4]}

Holder(m, key) == IF key \in DOMAIN m THEN m[key] ELSE "free"

\* a mutex that never blocks
CanLockHeld(m, key) == TRUE

\* metrics.mu.Lock() returns once no goroutine holds the mutex
CanLock(m, key) == Holder(m, key) = "free"

Acquire(m, key, t) == [k \in DOMAIN m \cup {key} |-> IF k = key THEN t ELSE m[k]]

Release(m, key) == [k \in DOMAIN m \cup {key} |-> IF k = key THEN "free" ELSE m[k]]

\* the copy Get and GetByNetwork build under the mutex
CopyMetrics(m) ==
    [Height |-> m.Height, Source |-> m.Source,
     LatencyHistory |-> [i \in 1..Len(m.LatencyHistory) |-> m.LatencyHistory[i]],
     AvgLatency |-> m.AvgLatency, WebSocketAvailable |-> m.WebSocketAvailable]

At(t, pc) == threads[t].pc = pc

Goto(t, pc) == threads' = [threads EXCEPT ![t].pc = pc]

\* Update is called: key := makeKey(network, node, endpointType)
UpdateCall(t, node, endpointType, sample) ==
    /\ At(t, "idle")
    /\ threads[t].calls < MaxCalls
    /\ threads' = [threads EXCEPT ![t].pc = "loadOrStore",
                                  ![t].key = makeKey(node.Network, node.Name, endpointType),
                                  ![t].arg = sample,
                                  ![t].calls = @ + 1]
    /\ UNCHANGED <<heightStore, mu, updates, auxMutex>>

\* metrics, _ := s.data.LoadOrStore(key, &NodeMetrics{...})
UpdateLoadOrStore(t) ==
    /\ At(t, "loadOrStore")
    /\ heightStore' = [k \in DOMAIN heightStore \cup {threads[t].key} |->
                         LoadOrStore(heightStore, k)]
    /\ Goto(t, "lock")
    /\ UNCHANGED <<mu, updates, auxMutex>>

\* metrics.mu.Lock()
UpdateLock(t) ==
    /\ At(t, "lock")
    /\ CanLock(mu, threads[t].key)
    /\ mu' = Acquire(mu, threads[t].key, t)
    /\ Goto(t, "height")
    /\ UNCHANGED <<heightStore, updates, auxMutex>>

\* metrics.Height = height; metrics.Source = source
UpdateSetHeight(t) ==
    /\ At(t, "height")
    /\ heightStore' = [heightStore EXCEPT ![threads[t].key].Height = threads[t].arg.height,
                                          ![threads[t].key].Source = "internal"]
    /\ Goto(t, "append")
    /\ UNCHANGED <<mu, updates, auxMutex>>

\* the append and the trim of the latency history
UpdateAppend(t) ==
    LET key == threads[t].key IN
    /\ At(t, "append")
    /\ heightStore' = [heightStore EXCEPT ![key].LatencyHistory =
                         AppendLatency(@, threads[t].arg.latency)]
    /\ updates' = [k \in DOMAIN updates \cup {key} |->
                     IF k = key
                     THEN Append(IF key \in DOMAIN updates THEN updates[key] ELSE <<>>,
                                 threads[t].arg.latency)
                     ELSE updates[k]]
    /\ Goto(t, "average")
    /\ UNCHANGED <<mu, auxMutex>>

\* metrics.AvgLatency = sum / len(metrics.LatencyHistory)
UpdateAverage(t) ==
    LET key == threads[t].key IN
    /\ At(t, "average")
    /\ heightStore' = [heightStore EXCEPT ![key].AvgLatency =
                         SumSeq(heightStore[key].LatencyHistory)
                           \div Len(heightStore[key].LatencyHistory)]
    /\ Goto(t, "unlock")
    /\ UNCHANGED <<mu, updates, auxMutex>>

\* the deferred metrics.mu.Unlock(), and the return
UpdateUnlock(t) ==
    /\ At(t, "unlock")
    /\ mu' = Release(mu, threads[t].key)
    /\ threads' = [threads EXCEPT ![t].pc = "idle", ![t].key = Nil, ![t].arg = Nil]
    /\ UNCHANGED <<heightStore, updates, auxMutex>>

\* Get is called: key := makeKey(network, node, endpointType)
GetCall(t, node, endpointType) ==
    /\ At(t, "idle")
    /\ threads' = [threads EXCEPT ![t].pc = "load",
                                  ![t].key = makeKey(node.Network, node.Name, endpointType)]
    /\ UNCHANGED <<heightStore, mu, updates, auxMutex>>

\* metrics, ok := s.data.Load(key); if !ok { return nil, false }
GetLoad(t) ==
    /\ At(t, "load")
    /\ Goto(t, IF threads[t].key \in DOMAIN heightStore THEN "lock" ELSE "returned")
    /\ UNCHANGED <<heightStore, mu, updates, auxMutex>>

GetLock(t) ==
    /\ At(t, "lock")
    /\ CanLock(mu, threads[t].key)
    /\ mu' = Acquire(mu, threads[t].key, t)
    /\ Goto(t, "copy")
    /\ UNCHANGED <<heightStore, updates, auxMutex>>

GetCopy(t) ==
    /\ At(t, "copy")
    /\ threads' = [threads EXCEPT ![t].pc = "unlock",
                                  ![t].ret = Ref(CopyMetrics(heightStore[threads[t].key]))]
    /\ UNCHANGED <<heightStore, mu, updates, auxMutex>>

GetUnlock(t) ==
    /\ At(t, "unlock")
    /\ mu' = Release(mu, threads[t].key)
    /\ Goto(t, "returned")
    /\ UNCHANGED <<heightStore, updates, auxMutex>>

\* the keys of the store that GetByNetwork(network, endpointType) copies
RangeKeys(store, arg) ==
    { k \in DOMAIN store :
        parseKey(k)[1] = arg.network /\ parseKey(k)[3] = arg.endpointType }

\* GetByNetwork is called.  s.data.Range visits every key that is in the map
\* throughout the call, and may or may not visit a key stored during it.
RangeCall(t, network, endpointType) ==
    LET arg == [network |-> network, endpointType |-> endpointType] IN
    /\ At(t, "idle")
    /\ threads' = [threads EXCEPT ![t].pc = "range", ![t].arg = arg,
                                  ![t].must = RangeKeys(heightStore, arg)]
    /\ UNCHANGED <<heightStore, mu, updates, auxMutex>>

\* the callback is entered for a key that matches
RangeNext(t) ==
    /\ At(t, "range")
    /\ \E key \in RangeKeys(heightStore, threads[t].arg) \ threads[t].visited :
         threads' = [threads EXCEPT ![t].pc = "rangeLock", ![t].key = key]
    /\ UNCHANGED <<heightStore, mu, updates, auxMutex>>

RangeLock(t) ==
    /\ At(t, "rangeLock")
    /\ CanLock(mu, threads[t].key)
    /\ mu' = Acquire(mu, threads[t].key, t)
    /\ Goto(t, "rangeCopy")
    /\ UNCHANGED <<heightStore, updates, auxMutex>>

RangeCopy(t) ==
    /\ At(t, "rangeCopy")
    /\ threads' = [threads EXCEPT ![t].pc = "rangeUnlock",
                                  ![t].ret = Ref(CopyMetrics(heightStore[threads[t].key]))]
    /\ UNCHANGED <<heightStore, mu, updates, auxMutex>>

\* metrics.mu.Unlock(); result[keyNode] = copy
RangeUnlock(t) ==
    LET key == threads[t].key
        keyNode == parseKey(key)[2]
        result == threads[t].result
    IN
    /\ At(t, "rangeUnlock")
    /\ mu' = Release(mu, key)
    /\ threads' = [threads EXCEPT
                     ![t].pc = "range", ![t].key = Nil, ![t].ret = Nil,
                     ![t].visited = @ \cup {key},
                     ![t].result = [n \in DOMAIN result \cup {keyNode} |->
                                      IF n = keyNode THEN threads[t].ret[1] ELSE result[n]]]
    /\ UNCHANGED <<heightStore, updates, auxMutex>>

\* the range is over: return result
RangeEnd(t) ==
    /\ At(t, "range")
    /\ threads[t].must \subseteq threads[t].visited
    /\ Goto(t, "returned")
    /\ UNCHANGED <<heightStore, mu, updates, auxMutex>>

\* the caller is done with the value it received
ReadReturn(t) ==
    /\ At(t, "returned")
    /\ threads' = [threads EXCEPT ![t] = NoCall]
    /\ UNCHANGED <<heightStore, mu, updates, auxMutex>>

NextMutex ==
    \/ \E t \in Updaters, sample \in MutexSamples : UpdateCall(t, Node1, <<"rpc">>, sample)
    \/ \E t \in Updaters : UpdateLoadOrStore(t)
    \/ \E t \in Updaters : UpdateLock(t)
    \/ \E t \in Updaters : UpdateSetHeight(t)
    \/ \E t \in Updaters : UpdateAppend(t)
    \/ \E t \in Updaters : UpdateAverage(t)
    \/ \E t \in Updaters : UpdateUnlock(t)
    \/ GetCall("get", Node1, <<"rpc">>)
    \/ GetLoad("get")
    \/ GetLock("get")
    \/ GetCopy("get")
    \/ GetUnlock("get")
    \/ RangeCall("getByNetwork", Pocket, <<"rpc">>)
    \/ RangeNext("getByNetwork")
    \/ RangeLock("getByNetwork")
    \/ RangeCopy("getByNetwork")
    \/ RangeUnlock("getByNetwork")
    \/ RangeEnd("getByNetwork")
    \/ \E t \in {"get", "getByNetwork"} : ReadReturn(t)

SpecMutex == Init /\ [][NextMutex]_vars

\* the values Get and GetByNetwork have handed to their callers
ReadValues ==
    { threads[t].ret[1] : t \in { x \in {"get"} : At(x, "returned") /\ threads[x].ret # Nil } }
      \cup
    UNION { { threads[t].result[n] : n \in DOMAIN threads[t].result } :
              t \in { x \in {"getByNetwork"} : At(x, "returned") } }

\* the goroutines between Lock and Unlock of the mutex of key
InCriticalSection(key) ==
    { t \in Threads :
        /\ threads[t].key = key
        /\ threads[t].pc \in {"height", "append", "average", "unlock", "copy",
                              "rangeCopy", "rangeUnlock"} }

\* C13: every value read through Get or GetByNetwork has avg_latency equal
\* to the integer mean of its own latency window (0 for an entry that no
\* update has written) and the height that came with the window's last
\* sample, also while Update calls on the key are in progress; at most one
\* goroutine is between Lock and Unlock of a key's mutex.
C13_ReadsAreConsistent ==
    /\ \A v \in ReadValues :
         IF v.LatencyHistory = <<>>
         THEN v.AvgLatency = 0 /\ v.Height = 0
         ELSE /\ v.AvgLatency = SumSeq(v.LatencyHistory) \div Len(v.LatencyHistory)
              /\ \E sample \in MutexSamples :
                   /\ sample.latency = v.LatencyHistory[Len(v.LatencyHistory)]
                   /\ sample.height = v.Height
    /\ \A key \in DOMAIN heightStore : Cardinality(InCriticalSection(key)) <= 1

\* a value was read while an Update of the key was waiting for the mutex,
\* after another Update had written the entry
C13_Witness ==
    /\ \E v \in ReadValues : Len(v.LatencyHistory) = 1
    /\ \E t \in Updaters : At(t, "lock")
    /\ \E t \in Updaters : At(t, "idle") /\ threads[t].calls > 0

(***************************************************************************)
(* SpecCopy: what a caller can reach through the pointers the store        *)
(* accessors return.  A returned pointer says where its struct and where   *)
(* the backing array of its latency history live: in a fresh "copy", whose *)
(* content the pointer record carries, or in the "store" entry of its key. *)
(* A write through the pointer lands where the pointer points.             *)
(***************************************************************************)
\* the copy that shares the backing array of the entry's latency history,
\* as copy := *metrics would
MetricsCopySharingHistory(key, m) ==
    [key |-> key, struct |-> "copy", array |-> "store", value |-> CopyMetrics(m)]

\* copy := &NodeMetrics{..., LatencyHistory: make(...)}; copyDurations(...)
MetricsCopy(key, m) ==
    [key |-> key, struct |-> "copy", array |-> "copy", value |-> CopyMetrics(m)]

\* epCopy := *ep; every field of ExternalEndpoint is a value
EndpointCopy(key, ep) ==
    [key |-> key, struct |-> "copy", array |-> "copy", value |-> ep]

\* the caller keeps the pointer HeightStore.Get returned
HoldGet(node, endpointType) ==
    LET key == makeKey(node.Network, node.Name, endpointType) IN
    /\ key \in DOMAIN heightStore
    /\ held' = [held EXCEPT !.metrics = Ref(MetricsCopy(key, heightStore[key]))]
    /\ UNCHANGED <<heightStore, endpoints, config, nodeAvailable, online, sel, auxCopy>>

\* the caller keeps one of the pointers of the map GetByNetwork returned
HoldGetByNetwork(network, endpointType) ==
    /\ \E key \in RangeKeys(heightStore, [network |-> network, endpointType |-> endpointType]) :
         held' = [held EXCEPT !.metrics = Ref(MetricsCopy(key, heightStore[key]))]
    /\ UNCHANGED <<heightStore, endpoints, config, nodeAvailable, online, sel, auxCopy>>

\* the caller keeps one of the pointers GetValidatedEndpoints returned
HoldValidated(network, endpointType) ==
    /\ \E key \in GetValidatedEndpoints(endpoints, network, endpointType) :
         held' = [held EXCEPT !.endpoint = Ref(EndpointCopy(key, endpoints[key]))]
    /\ UNCHANGED <<heightStore, endpoints, config, nodeAvailable, online, sel, auxCopy>>

\* the caller keeps one of the pointers GetFailedEndpoints returned
HoldFailed ==
    /\ \E key \in GetFailedEndpoints(endpoints) :
         held' = [held EXCEPT !.endpoint = Ref(EndpointCopy(key, endpoints[key]))]
    /\ UNCHANGED <<heightStore, endpoints, config, nodeAvailable, online, sel, auxCopy>>

\* m.Height = height; m.AvgLatency = latency, through a held *NodeMetrics
WriteMetricsFields(height, latency) ==
    /\ held.metrics # Nil
    /\ LET p == held.metrics[1] IN
       IF p.struct = "copy"
       THEN /\ held' = [held EXCEPT !.metrics[1].value.Height = height,
                                    !.metrics[1].value.AvgLatency = latency]
            /\ UNCHANGED heightStore
       ELSE /\ heightStore' = [heightStore EXCEPT ![p.key].Height = height,
                                                  ![p.key].AvgLatency = latency]
            /\ UNCHANGED held
    /\ UNCHANGED <<endpoints, config, nodeAvailable, online, sel, auxCopy>>

\* m.LatencyHistory[i] = latency, through a held *NodeMetrics
WriteHistoryElement(i, latency) ==
    /\ held.metrics # Nil
    /\ LET p == held.metrics[1] IN
       /\ i \in 1..Len(p.value.LatencyHistory)
       /\ IF p.array = "copy"
          THEN /\ held' = [held EXCEPT !.metrics[1].value.LatencyHistory[i] = latency]
               /\ UNCHANGED heightStore
          ELSE /\ i \in 1..Len(heightStore[p.key].LatencyHistory)
               /\ heightStore' = [heightStore EXCEPT ![p.key].LatencyHistory[i] = latency]
               /\ UNCHANGED held
    /\ UNCHANGED <<endpoints, config, nodeAvailable, online, sel, auxCopy>>

\* ep.IsWorking = working; ep.ErrorCount = 0; ep.Height = height, through a
\* held *ExternalEndpoint
WriteEndpointFields(working, height) ==
    /\ held.endpoint # Nil
    /\ LET p == held.endpoint[1] IN
       IF p.struct = "copy"
       THEN /\ held' = [held EXCEPT !.endpoint[1].value.IsWorking = working,
                                    !.endpoint[1].value.ErrorCount = 0,
                                    !.endpoint[1].value.Height = height]
            /\ UNCHANGED endpoints
       ELSE /\ p.key \in DOMAIN endpoints
            /\ endpoints' = [endpoints EXCEPT ![p.key].IsWorking = working,
                                              ![p.key].ErrorCount = 0,
                                              ![p.key].Height = height]
            /\ UNCHANGED held
    /\ UNCHANGED <<heightStore, config, nodeAvailable, online, sel, auxCopy>>

\* the caller drops what it holds
DropHeld ==
    /\ held # NothingHeld
    /\ held' = NothingHeld
    /\ UNCHANGED <<heightStore, endpoints, config, nodeAvailable, online, sel, auxCopy>>

\* a write of the caller through a pointer it holds; the caller writes a
\* height and a latency that no checker stores
CallerWrites ==
    \/ WriteMetricsFields(MaxHeight, 4)
    \/ \E i \in 1..LatencyHistorySize : WriteHistoryElement(i, 4)
    \/ \E b \in BOOLEAN : WriteEndpointFields(b, MaxHeight)

NextCopy ==
    \/ \E h \in InternalHeights, l \in Latencies :
         HeightStoreUpdate(Node1, <<"api">>, h, l) /\ UNCHANGED <<auxCopy, held>>
    \/ StoreAdvertised(E1) /\ UNCHANGED <<auxCopy, held>>
    \/ \E h \in StoreHeights, l \in ExtLatencies :
         MarkValidated(E1, h, l) /\ UNCHANGED <<auxCopy, held>>
    \/ TrackProxyError(E1.Network, E1.Type, E1.URL) /\ UNCHANGED <<auxCopy, held>>
    \/ HoldGet(Node1, <<"api">>)
    \/ HoldGetByNetwork(Pocket, <<"api">>)
    \/ HoldValidated(Pocket, <<"api">>)
    \/ HoldFailed
    \/ WriteMetricsFields(MaxHeight, 4)
    \/ \E i \in 1..LatencyHistorySize : WriteHistoryElement(i, 4)
    \/ \E b \in BOOLEAN : WriteEndpointFields(b, MaxHeight)
    \/ DropHeld

SpecCopy == Init /\ [][NextCopy]_vars

\* what the four accessors return for the current stores
Reads ==
    [get |-> [k \in DOMAIN heightStore |-> CopyMetrics(heightStore[k])],
     getByNetwork |-> GetByNetwork(heightStore, Pocket, <<"api">>),
     validated |-> { endpoints[k] : k \in GetValidatedEndpoints(endpoints, Pocket, <<"api">>) },
     failed |-> { endpoints[k] : k \in GetFailedEndpoints(endpoints) }]

\* C14: a write through a value returned by HeightStore.Get, GetByNetwork,
\* GetValidatedEndpoints or GetFailedEndpoints, to a field or to an element of
\* the latency history, does not change what the accessors return afterwards.
C14_WritesToCopiesLeaveReads ==
    [][CallerWrites => Reads' = Reads]_vars

\* the caller has overwritten the latency history of the copy it holds and
\* the fields of the endpoint copy it holds
C14_Witness ==
    /\ held.metrics # Nil
    /\ held.endpoint # Nil
    /\ held.metrics[1].key \in DOMAIN heightStore
    /\ held.endpoint[1].key \in DOMAIN endpoints
    /\ Len(held.metrics[1].value.LatencyHistory) > 0
    /\ held.metrics[1].value.LatencyHistory # heightStore[held.metrics[1].key].LatencyHistory
    /\ held.metrics[1].value.Height # heightStore[held.metrics[1].key].Height
    /\ held.endpoint[1].value.IsWorking # endpoints[held.endpoint[1].key].IsWorking

(***************************************************************************)
(* SpecResolve: Selector.GetEndpointURL on the identifiers the selector    *)
(* hands out and on others, over configurations that a reload swaps and    *)
(* URLs that rings advertise.                                              *)
(***************************************************************************)
\* normalizeURL with the test for the scheme left out
normalizeURLAsIs(url) == url

normalizeURL(url) ==
    IF url = <<>> THEN <<>>
    ELSE IF Len(url) > 0 /\ url[1] # "h" THEN Flat(<<"https">>) \o <<":", "/", "/">> \o url
    ELSE url

\* the loop over cfg.Internals: the first node of that name decides for api,
\* rpc and grpc; for another protocol the loop goes on
RECURSIVE SearchInternals(_, _, _)
SearchInternals(internals, nodeName, endpointType) ==
    IF internals = <<>> THEN Nil
    ELSE LET node == Head(internals) IN
         IF node.Name = nodeName /\ endpointType = Flat(<<"api">>)
         THEN Ref(normalizeURL(node.API))
         ELSE IF node.Name = nodeName /\ endpointType = Flat(<<"rpc">>)
         THEN Ref(normalizeURL(node.RPC))
         ELSE IF node.Name = nodeName /\ endpointType = Flat(<<"grpc">>)
         THEN Ref(node.GRPC)
         ELSE SearchInternals(Tail(internals), nodeName, endpointType)

GetEndpointURL(cfg, nodeName, endpointType) ==
    LET found == SearchInternals(cfg.Internals, nodeName, endpointType) IN
    IF found # Nil THEN found[1]
    ELSE IF Len(nodeName) > 4 /\ SubSeq(nodeName, 1, 4) = <<"e", "x", "t", ":">>
    THEN SubSeq(nodeName, 5, Len(nodeName))
    ELSE <<>>

\* the identifier the selector gives an external endpoint with this URL
ExtName(url) == Flat(<<"ext">> \o url)

\* identifiers passed to GetEndpointURL: the node names, ext:<url> for the
\* URLs of E1 and E3 and for a string no ring advertises, "ext:" and "zz"
ResolveNames ==
    { Flat(Node1.Name), Flat(Node2.Name), ExtName(U1), ExtName(U2),
      ExtName(<<"zz">>), ExtName(<<"">>), Flat(<<"zz">>) }

ResolveTypes == { Flat(<<"api">>), Flat(<<"rpc">>), Flat(<<"grpc">>), Flat(<<"ws">>) }

ResolveCall(nodeName, endpointType) ==
    /\ resolve' = Ref([cfg |-> config, nodeName |-> nodeName, endpointType |-> endpointType,
                       url |-> GetEndpointURL(config, nodeName, endpointType)])
    /\ UNCHANGED <<endpoints, config, auxResolve>>

\* Loader.onConfigChange with another list of internal nodes
ReloadInternals(internals) ==
    /\ config' = [config EXCEPT !.Internals = internals]
    /\ UNCHANGED <<endpoints, resolve, auxResolve>>

NextResolve ==
    \/ \E n \in ResolveNames, t \in ResolveTypes : ResolveCall(n, t)
    \/ \E i \in InternalsChoices : ReloadInternals(i)
    \/ \E a \in {E1, E3} : StoreAdvertised(a) /\ UNCHANGED aux

SpecResolve == Init /\ [][NextResolve]_vars

\* the node of the call's configuration that has the name passed in
ResolvedNode ==
    LET internals == resolve[1].cfg.Internals IN
    IF \E i \in 1..Len(internals) : internals[i].Name = resolve[1].nodeName
    THEN Ref(internals[CHOOSE i \in 1..Len(internals) : internals[i].Name = resolve[1].nodeName])
    ELSE Nil

\* the URL the configuration gives the node for the protocol of the call
ConfiguredURL(node) ==
    IF resolve[1].endpointType = Flat(<<"api">>) THEN node.API
    ELSE IF resolve[1].endpointType = Flat(<<"rpc">>) THEN node.RPC
    ELSE node.GRPC

KnownProtocol ==
    resolve[1].endpointType \in { Flat(<<"api">>), Flat(<<"rpc">>), Flat(<<"grpc">>) }

HasExtPrefix(nodeName) ==
    Len(nodeName) >= 4 /\ SubSeq(nodeName, 1, 4) = <<"e", "x", "t", ":">>

AdvertisedURLs == { Flat(endpoints[k].URL) : k \in DOMAIN endpoints }

\* C15: for a configured node name and api or rpc, GetEndpointURL returns the
\* configured URL, with "https://" put in front when it is not empty and does
\* not start with the byte "h"; for grpc the configured address as it is; for
\* an identifier ext:<rest> that is no node name, <rest> as it is, advertised
\* or not; for any other identifier, and for a node name with a protocol
\* other than api, rpc and grpc, the empty string.
C15_ResolveEndpoint ==
    resolve # Nil =>
      LET r == resolve[1]
          https == <<"h", "t", "t", "p", "s", ":", "/", "/">>
      IN IF ResolvedNode # Nil /\ KnownProtocol
         THEN LET url == ConfiguredURL(ResolvedNode[1]) IN
              r.url = IF r.endpointType = Flat(<<"grpc">>) \/ url = <<>> \/ url[1] = "h"
                      THEN url
                      ELSE https \o url
         ELSE IF HasExtPrefix(r.nodeName)
         THEN r.nodeName = <<"e", "x", "t", ":">> \o r.url
         ELSE r.url = <<>>

\* a host:port URL was resolved for rpc and came back with the scheme in front
C15_Witness ==
    /\ resolve # Nil
    /\ ResolvedNode # Nil
    /\ resolve[1].endpointType = Flat(<<"rpc">>)
    /\ ResolvedNode[1].RPC = Flat(<<"node-1.internal", "26657">>)
    /\ resolve[1].url = Flat(<<"https", "//node-1.internal", "26657">>)

\* C15 as stated: the configured URL for a node name and its protocol, u for
\* ext:u with u advertised, the empty string for any other identifier
C15_ResolveAsStated ==
    resolve # Nil =>
      LET r == resolve[1] IN
      /\ (ResolvedNode # Nil /\ KnownProtocol) => r.url = ConfiguredURL(ResolvedNode[1])
      /\ (\E u \in AdvertisedURLs : r.nodeName = <<"e", "x", "t", ":">> \o u) =>
           r.nodeName = <<"e", "x", "t", ":">> \o r.url
      /\ (/\ ResolvedNode = Nil
          /\ ~ \E u \in AdvertisedURLs : r.nodeName = <<"e", "x", "t", ":">> \o u) =>
           r.url = <<>>

(***************************************************************************)
(* SpecProxy: one request at a time through HTTPProxy.ServeHTTP (api and   *)
(* rpc, plain or WebSocket upgrade) or GRPCProxy.proxyHandler, while the   *)
(* health checks and the external checker write the stores.  The handler   *)
(* is cut where it calls the selector, so that the writers interleave.     *)
(* rpc has two internal nodes and the external endpoint E3, grpc has one   *)
(* internal node, api has no candidate at all.                             *)
(***************************************************************************)
GRPC == <<"grpc">>

\* a request as the handler receives it
NewRequest(proxy, endpointType, websocket) ==
    [pc |-> "select", proxy |-> proxy, endpointType |-> endpointType,
     websocket |-> websocket, selections |-> 0, metrics |-> Nil, nodeName |-> <<>>,
     targetURL |-> <<>>, checked |-> Nil, flagAtCheck |-> Nil,
     response |-> "", forwarded |-> Nil, hijacked |-> FALSE]

\* the WebSocketAvailable flag the stores hold for a selector identifier, Nil
\* when they hold no entry for it
StoredFlag(store, eps, network, endpointType, name) ==
    IF Len(name) > 1 /\ Head(name) = "ext"
    THEN LET keys == TrackMatches(eps, network, endpointType, Tail(name)) IN
         IF keys = {} THEN Nil ELSE Ref(\E k \in keys : eps[k].WebSocketAvailable)
    ELSE LET key == makeKey(network, name, endpointType) IN
         IF key \in DOMAIN store THEN Ref(store[key].WebSocketAvailable) ELSE Nil

\* the entries TrackProxyError can stop at for the URL a proxy forwarded to
ProxyTrackMatches(eps, network, endpointType, targetURL) ==
    { k \in DOMAIN eps :
        eps[k].Network = network /\ eps[k].Type = endpointType /\ Flat(eps[k].URL) = targetURL }

\* a handler that selects again when the selector returned no node
SelectedNoneRetries(r) == [r EXCEPT !.selections = @ + 1]

\* if nodeMetrics == nil || nodeName == "": the answer of the handler
SelectedNone(r) ==
    [r EXCEPT !.pc = "done", !.selections = @ + 1,
              !.response = IF r.proxy = "grpc" THEN "Unavailable" ELSE "503"]

RequestArrives(proxy, endpointType, websocket) ==
    /\ req = Idle
    /\ req' = NewRequest(proxy, endpointType, websocket)
    /\ UNCHANGED <<heightStore, endpoints, config>>

\* the GetBestNode call of both handlers: no node answers 503 or Unavailable
ProxySelect ==
    /\ req.pc = "select"
    /\ \E internalOrder \in Perms(DOMAIN GetByNetwork(heightStore, Pocket, req.endpointType)),
          externalOrder \in Perms(GetValidatedEndpoints(endpoints, Pocket, req.endpointType)) :
         LET best == GetBestNode(heightStore, endpoints, config, Pocket, req.endpointType,
                                 internalOrder, externalOrder).result
         IN req' = IF best.metrics = Nil \/ best.name = <<>>
                   THEN SelectedNone(req)
                   ELSE [req EXCEPT !.pc = "resolve", !.selections = @ + 1,
                                    !.metrics = best.metrics, !.nodeName = best.name]
    /\ UNCHANGED <<heightStore, endpoints, config>>

\* the GetEndpointURL call of both handlers
ProxyResolve ==
    /\ req.pc = "resolve"
    /\ LET targetURL == GetEndpointURL(config, Flat(req.nodeName), Flat(req.endpointType)) IN
       req' = IF targetURL = <<>>
              THEN [req EXCEPT !.pc = "done",
                               !.response = IF req.proxy = "grpc" THEN "Internal" ELSE "500"]
              ELSE [req EXCEPT !.pc = IF req.websocket THEN "websocket" ELSE "forward",
                               !.targetURL = targetURL]
    /\ UNCHANGED <<heightStore, endpoints, config>>

\* the status the tracker records: the backend's, or 502 from the error handler
HTTPStatuses == {"200", "404", "500", "502"}

\* ServeHTTP from the reverse proxy on: the request goes to the target and a
\* status of 500 or more is reported to TrackProxyError
ProxyForwardHTTP(status) ==
    /\ req.pc = "forward"
    /\ req.proxy = "http"
    /\ req' = [req EXCEPT !.pc = "done", !.response = status,
                          !.forwarded = Ref(req.targetURL)]
    /\ LET matches == ProxyTrackMatches(endpoints, Pocket, req.endpointType, req.targetURL) IN
       IF status \in {"500", "502"} /\ matches # {}
       THEN \E key \in matches :
              endpoints' = IF endpoints[key].ErrorCount < MaxErrorCount
                           THEN TrackProxyErrorOp(endpoints, key)
                           ELSE endpoints
       ELSE UNCHANGED endpoints
    /\ UNCHANGED <<heightStore, config>>

\* the code of the error the forwarding ends with, OK for none
GRPCCodes == {"OK", "NotFound", "Unavailable", "Internal", "DataLoss", "Unknown"}

\* proxyHandler from the dial on
ProxyForwardGRPC(code) ==
    /\ req.pc = "forward"
    /\ req.proxy = "grpc"
    /\ req' = [req EXCEPT !.pc = "done", !.response = code,
                          !.forwarded = Ref(req.targetURL)]
    /\ LET matches == ProxyTrackMatches(endpoints, Pocket, GRPC, req.targetURL) IN
       IF code \in {"Internal", "Unavailable", "DataLoss", "Unknown"} /\ matches # {}
       THEN \E key \in matches :
              endpoints' = IF endpoints[key].ErrorCount < MaxErrorCount
                           THEN TrackProxyErrorOp(endpoints, key)
                           ELSE endpoints
       ELSE UNCHANGED endpoints
    /\ UNCHANGED <<heightStore, config>>

\* handleWebSocket: GetBestNode once more, the flag of the node that call
\* returns, then the hijack and the tunnel to the target of the first call.
\* status is what the backend answers to the upgrade, 502 when it cannot be
\* reached.
HandleWebSocket(status) ==
    /\ req.pc = "websocket"
    /\ \E internalOrder \in Perms(DOMAIN GetByNetwork(heightStore, Pocket, req.endpointType)),
          externalOrder \in Perms(GetValidatedEndpoints(endpoints, Pocket, req.endpointType)) :
         LET best == GetBestNode(heightStore, endpoints, config, Pocket, req.endpointType,
                                 internalOrder, externalOrder).result
             seen == [req EXCEPT !.pc = "done", !.selections = @ + 1,
                                 !.checked = IF best.metrics = Nil THEN Nil
                                             ELSE Ref(best.name),
                                 !.flagAtCheck = StoredFlag(heightStore, endpoints, Pocket,
                                                            req.endpointType, req.nodeName)]
         IN req' = IF best.metrics # Nil /\ ~ best.metrics[1].WebSocketAvailable
                   THEN [seen EXCEPT !.response = "503"]
                   ELSE [seen EXCEPT !.response = status, !.hijacked = TRUE,
                                     !.forwarded = IF status = "502" THEN Nil
                                                   ELSE Ref(req.targetURL)]
    /\ UNCHANGED <<heightStore, endpoints, config>>

RequestReturns ==
    /\ req # Idle
    /\ req.pc = "done"
    /\ req' = Idle
    /\ UNCHANGED <<heightStore, endpoints, config>>

\* what the proxy steps leave alone
auxProxy == <<nodeAvailable, online, sel, run, updates, mu, threads, held, resolve, pass,
    stream, tunnel, server,
    connPool, rings>>
\* what the writers leave alone under SpecProxy
auxWriter == <<run, updates, mu, threads, held, resolve, req, pass,
    stream, tunnel, server,
    connPool, rings>>

NextProxy ==
    \/ \E t \in Types, ws \in BOOLEAN : RequestArrives("http", t, ws) /\ UNCHANGED auxProxy
    \/ RequestArrives("grpc", GRPC, FALSE) /\ UNCHANGED auxProxy
    \/ ProxySelect /\ UNCHANGED auxProxy
    \/ ProxyResolve /\ UNCHANGED auxProxy
    \/ \E status \in HTTPStatuses : ProxyForwardHTTP(status) /\ UNCHANGED auxProxy
    \/ \E code \in GRPCCodes : ProxyForwardGRPC(code) /\ UNCHANGED auxProxy
    \/ \E status \in {"101", "502"} : HandleWebSocket(status) /\ UNCHANGED auxProxy
    \/ RequestReturns /\ UNCHANGED auxProxy
    \/ \E h \in InternalHeights, ws \in BOOLEAN :
         RPCCheckNodeOK(Node1, h, 1, ws) /\ UNCHANGED auxWriter
    \/ \E ws \in BOOLEAN :
         RPCCheckNodeOK(Node2, MaxInternalHeight, 1, ws) /\ UNCHANGED auxWriter
    \/ \E h \in {0, MaxInternalHeight} :
         HeightStoreUpdate(Node1, GRPC, h, 1) /\ UNCHANGED auxWriter
    \/ StoreAdvertised(E3) /\ UNCHANGED auxWriter
    \/ \E h \in {0, MaxHeight} : MarkValidated(E3, h, 2) /\ UNCHANGED auxWriter

SpecProxy == Init /\ [][NextProxy]_vars

\* the selector has no viable candidate for the protocol: no internal node
\* of the protocol has a height above 0, and no validated and working
\* external endpoint has one
NoViableCandidate(endpointType) ==
    /\ \A n \in DOMAIN GetByNetwork(heightStore, Pocket, endpointType) :
         GetByNetwork(heightStore, Pocket, endpointType)[n].Height = 0
    /\ \A k \in GetValidatedEndpoints(endpoints, Pocket, endpointType) :
         endpoints[k].Height = 0

\* C16: when the selector has no viable candidate as a handler selects, the
\* HTTP proxy answers 503 and the gRPC proxy Unavailable, after one
\* selection, with nothing forwarded or hijacked, and the handler returns.
C16_NoCandidateAnswers503 ==
    [][/\ (req.pc = "select" /\ NoViableCandidate(req.endpointType) /\ req' # req) =>
            /\ req'.pc = "done"
            /\ req'.response = (IF req.proxy = "grpc" THEN "Unavailable" ELSE "503")
            /\ req'.selections = 1
            /\ req'.forwarded = Nil
            /\ ~ req'.hijacked
       /\ (req.pc = "done" /\ req' # req) => req' = Idle]_vars

\* an rpc request was answered 503 while the stores hold an internal node
\* and a validated external endpoint of the protocol, both at height 0
C16_Witness ==
    /\ req.pc = "done"
    /\ req.proxy = "http"
    /\ req.endpointType = <<"rpc">>
    /\ req.response = "503"
    /\ req.selections = 1
    /\ DOMAIN GetByNetwork(heightStore, Pocket, <<"rpc">>) # {}
    /\ GetValidatedEndpoints(endpoints, Pocket, <<"rpc">>) # {}
    /\ NoViableCandidate(<<"rpc">>)

\* C17: a WebSocket upgrade is hijacked only after the flag of the candidate
\* the request was routed to has been checked and found true: the node whose
\* flag handleWebSocket reads is the node of the target, and the stores do
\* not hold websocket_available = false for that node at the check.
C17_HijackOnlyWithWebSocketFlag ==
    (req.pc = "done" /\ req.hijacked) =>
        /\ req.checked = Ref(req.nodeName)
        /\ req.flagAtCheck # Ref(FALSE)

(***************************************************************************)
(* SpecRecover: the recovery pass of the external checker, one pass at a   *)
(* time as the scheduler starts it, next to the writers of the endpoint    *)
(* store: the discovery of E1 and E3 and the proxies that report errors.   *)
(* The backend of U1 answers every probe; the backend of U2 answers or     *)
(* not.  The cron entry starts a pass every ten seconds and every probe    *)
(* ends by the deadline of the pass, so every step of the pass is taken.   *)
(***************************************************************************)
\* what the steps of a pass leave alone
auxPass == <<heightStore, config, nodeAvailable, online, sel, run, updates, mu, threads,
             held, resolve, req,
    stream, tunnel, server,
    connPool, rings>>

\* URLs whose backend answers every validation probe
AlwaysUp == {U1}

\* err == nil of validateHTTPEndpoint / validateGRPCEndpoint for the URL
ProbeOutcomes(url) == IF url \in AlwaysUp THEN {TRUE} ELSE BOOLEAN

\* RecoverFailedEndpoints up to the loop: the copies GetFailedEndpoints
\* returns, in the order of its map range
RecoverStart ==
    /\ pass.recover = Idle
    /\ \E order \in Perms(GetFailedEndpoints(endpoints)) :
         pass' = [pass EXCEPT !.recover =
                    [pc |-> IF Len(order) = 0 THEN "done" ELSE "probe",
                     failed |-> [j \in 1..Len(order) |-> endpoints[order[j]]],
                     i |-> 1, recovered |-> {}]]
    /\ UNCHANGED <<endpoints, auxPass>>

\* one turn of the loop: the probe of the copy's URL, and on success
\* MarkValidated with the height of the copy
RecoverProbe(ok) ==
    /\ pass.recover.pc = "probe"
    /\ LET r == pass.recover
           ep == r.failed[r.i]
       IN /\ ok \in ProbeOutcomes(ep.URL)
          /\ endpoints' = IF ok THEN MarkValidatedOp(endpoints, ep, ep.Height, 2)
                          ELSE endpoints
          /\ pass' = [pass EXCEPT !.recover =
                        [r EXCEPT !.pc = IF r.i = Len(r.failed) THEN "done" ELSE "probe",
                                  !.i = @ + 1,
                                  !.recovered = IF ok THEN @ \cup {KeyOf(ep)} ELSE @]]
    /\ UNCHANGED auxPass

\* Scheduler.recoverFailedEndpoints returns
RecoverReturn ==
    /\ pass.recover.pc = "done"
    /\ pass' = [pass EXCEPT !.recover = Idle]
    /\ UNCHANGED <<endpoints, auxPass>>

NextRecover ==
    \/ \E a \in {E1, E3} : StoreAdvertised(a) /\ UNCHANGED aux
    \/ \E a \in {E1, E3}, h \in StoreHeights : MarkValidated(a, h, 2) /\ UNCHANGED aux
    \/ MarkValidationFailed(E3) /\ UNCHANGED aux
    \/ \E a \in {E1, E3} : TrackProxyError(a.Network, a.Type, a.URL) /\ UNCHANGED aux
    \/ RecoverStart
    \/ \E ok \in BOOLEAN : RecoverProbe(ok)
    \/ RecoverReturn

SpecRecover ==
    /\ Init
    /\ [][NextRecover]_vars
    /\ WF_vars(RecoverStart)
    /\ WF_vars(\E ok \in BOOLEAN : RecoverProbe(ok))
    /\ WF_vars(RecoverReturn)

Failed(a) ==
    /\ KeyOf(a) \in DOMAIN endpoints
    /\ endpoints[KeyOf(a)].IsValidated
    /\ ~ endpoints[KeyOf(a)].IsWorking

\* the selector takes the endpoint as a candidate
Eligible(a) == KeyOf(a) \in GetValidatedEndpoints(endpoints, a.Network, a.Type)

\* the keys the step of the pass has just marked validated
JustRecovered == pass'.recover.recovered \ pass.recover.recovered

\* C18: the turn of the recovery loop whose probe succeeds leaves the
\* endpoint validated and working with error_count = 0; and with the steps
\* of the recovery pass scheduled fairly, a failed endpoint whose probes
\* succeed becomes a candidate of the selector again.
C18_RecoveryRestores ==
    /\ [][(pass.recover.pc = "probe" /\ pass'.recover # pass.recover) =>
            \A k \in JustRecovered :
              /\ endpoints'[k].IsValidated
              /\ endpoints'[k].IsWorking
              /\ endpoints'[k].ErrorCount = 0]_vars
    /\ (Failed(E1) ~> Eligible(E1))

\* a pass has recovered the endpoint of U1, which failed at height 2, and
\* goes on with the endpoint of U2
C18_Witness ==
    /\ pass.recover # Idle
    /\ pass.recover.pc = "probe"
    /\ pass.recover.i = 2
    /\ KeyOf(E1) \in pass.recover.recovered
    /\ pass.recover.failed[1].ErrorCount = ErrorThreshold
    /\ Eligible(E1)
    /\ endpoints[KeyOf(E1)].ErrorCount = 0
    /\ endpoints[KeyOf(E1)].Height = 2

\* C18 as stated: when the loop of the pass ends, every endpoint whose
\* probe succeeded in the pass is validated and working with error_count = 0
C18_RecoveredAtEndOfPass ==
    [][(pass.recover.pc = "probe" /\ pass'.recover.pc = "done") =>
          \A k \in pass'.recover.recovered :
            /\ endpoints'[k].IsValidated
            /\ endpoints'[k].IsWorking
            /\ endpoints'[k].ErrorCount = 0]_vars

(***************************************************************************)
(* SpecCheck: CheckExternal for external "pnf" with the one ring "ringA"   *)
(* and network pocket, one pass at a time, next to the proxy that reports  *)
(* errors for the api URL.  The ring answers with a status or not at all; *)
(* every validation probe succeeds or fails.                               *)
(***************************************************************************)
\* the body of a ring's /status answer: height and the URL of each protocol,
\* empty where the ring advertises none
RingStatus(height, api, rpc, grpc) ==
    [Height |-> height, API |-> api, RPC |-> rpc, GRPC |-> grpc]

RingStatuses ==
    { RingStatus(h, U1, U2, U3) : h \in {0} \cup StoreHeights }
        \cup { RingStatus(1, U1, <<>>, <<>>) }

\* the protocols queryRing handles for a status, in the order of its three
\* if statements, each with the URL it passes on
AdvertisedTypes(status) ==
    (IF status.API # <<>> THEN << <<"api">> >> ELSE <<>>)
        \o (IF status.RPC # <<>> THEN << <<"rpc">> >> ELSE <<>>)
        \o (IF status.GRPC # <<>> THEN << GRPC >> ELSE <<>>)

StatusURL(status, endpointType) ==
    IF endpointType = <<"api">> THEN status.API
    ELSE IF endpointType = <<"rpc">> THEN status.RPC
    ELSE status.GRPC

\* the arguments StoreAdvertised, MarkValidated and MarkValidationFailed get
AdvertisedBy(status, endpointType) ==
    [ExternalName |-> <<"pnf">>, RingURL |-> <<"ringA">>, Network |-> Pocket,
     Type |-> endpointType, URL |-> StatusURL(status, endpointType)]

\* the state of an entry: its URL and its two flags
StateOf(ep) == [URL |-> ep.URL, IsValidated |-> ep.IsValidated, IsWorking |-> ep.IsWorking]

\* what the pass has seen of a protocol: the state of the entry after
\* StoreAdvertised, whether the key was new, the probe's outcome and the
\* entry after it
Observe(log, endpointType, field, value) ==
    [t \in DOMAIN log \cup {endpointType} |->
       IF t = endpointType
       THEN (IF t \in DOMAIN log THEN log[t] ELSE [x \in {} |-> Nil])
                @@ (field :> value)
       ELSE log[t]]

\* queryRing fails: no answer, a status other than 200, a body that does
\* not parse
QueryRingFails ==
    /\ pass.check = Idle
    /\ pass' = [pass EXCEPT !.check = [pc |-> "done", status |-> Nil, types |-> <<>>,
                                       i |-> 1, log |-> EmptyMap, err |-> "query"]]
    /\ UNCHANGED <<endpoints, auxPass>>

\* a test that lets every height pass
ZeroHeightStatusAccepted(status) == FALSE

\* if status.Height == 0
ZeroHeightStatus(status) == status.Height = 0

\* queryRing up to the first StoreAdvertised: a status with height 0 ends it
\* with the error "zero_height"
QueryRing(status) ==
    /\ pass.check = Idle
    /\ pass' = [pass EXCEPT !.check =
                  IF ZeroHeightStatus(status)
                  THEN [pc |-> "done", status |-> Ref(status), types |-> <<>>, i |-> 1,
                        log |-> EmptyMap, err |-> "zero_height"]
                  ELSE IF AdvertisedTypes(status) = <<>>
                  THEN [pc |-> "done", status |-> Ref(status), types |-> <<>>, i |-> 1,
                        log |-> EmptyMap, err |-> ""]
                  ELSE [pc |-> "store", status |-> Ref(status),
                        types |-> AdvertisedTypes(status), i |-> 1, log |-> EmptyMap,
                        err |-> ""]]
    /\ UNCHANGED <<endpoints, auxPass>>

\* c.endpointStore.StoreAdvertised for the protocol at hand
CheckStore ==
    /\ pass.check.pc = "store"
    /\ LET c == pass.check
           t == c.types[c.i]
           a == AdvertisedBy(c.status[1], t)
           new == StoreAdvertisedOp(endpoints, a)
       IN /\ endpoints' = new
          /\ pass' = [pass EXCEPT !.check =
                        [c EXCEPT !.pc = "validate",
                                  !.log = Observe(Observe(c.log, t, "advertised",
                                                          StateOf(new[KeyOf(a)])),
                                                  t, "fresh", KeyOf(a) \notin DOMAIN endpoints)]]
    /\ UNCHANGED auxPass

\* validateEndpoint for the protocol at hand: the probe, then MarkValidated
\* with the height of the status or MarkValidationFailed
CheckValidate(ok) ==
    /\ pass.check.pc = "validate"
    /\ LET c == pass.check
           t == c.types[c.i]
           a == AdvertisedBy(c.status[1], t)
           new == IF ok THEN MarkValidatedOp(endpoints, a, c.status[1].Height, 2)
                  ELSE MarkValidationFailedOp(endpoints, a)
       IN /\ endpoints' = new
          /\ pass' = [pass EXCEPT !.check =
                        [c EXCEPT !.pc = IF c.i = Len(c.types) THEN "done" ELSE "store",
                                  !.i = @ + 1,
                                  !.log = Observe(Observe(c.log, t, "ok", ok),
                                                  t, "validated", new[KeyOf(a)])]]
    /\ UNCHANGED auxPass

\* CheckExternal returns
CheckReturn ==
    /\ pass.check.pc = "done"
    /\ pass' = [pass EXCEPT !.check = Idle]
    /\ UNCHANGED <<endpoints, auxPass>>

NextCheck ==
    \/ QueryRingFails
    \/ \E status \in RingStatuses : QueryRing(status)
    \/ CheckStore
    \/ \E ok \in BOOLEAN : CheckValidate(ok)
    \/ CheckReturn
    \/ TrackProxyError(E1.Network, E1.Type, E1.URL) /\ UNCHANGED aux

SpecCheck == Init /\ [][NextCheck]_vars

AllTypes == {<<"api">>, <<"rpc">>, GRPC}

\* the pass at its end, after a status with a height and the three URLs and
\* three probes that succeeded
PassValidatedAll ==
    /\ pass.check # Idle
    /\ pass.check.pc = "done"
    /\ pass.check.status # Nil
    /\ pass.check.status[1].Height # 0
    /\ \A t \in AllTypes : StatusURL(pass.check.status[1], t) # <<>>
    /\ \A t \in DOMAIN pass.check.log : pass.check.log[t].ok

\* C19: at the end of a pass against a ring that reports a height other
\* than 0 and an api, an rpc and a grpc URL whose probes all succeed, each
\* of the three endpoints has been stored, as ADVERTISED (not validated, not
\* working) when its key was new, and has then been marked validated and
\* working with the height of the ring.
C19_PassValidatesAdvertised ==
    PassValidatedAll =>
        /\ DOMAIN pass.check.log = AllTypes
        /\ \A t \in AllTypes :
             LET seen == pass.check.log[t] IN
             /\ seen.advertised.URL = StatusURL(pass.check.status[1], t)
             /\ seen.fresh => (~ seen.advertised.IsValidated /\ ~ seen.advertised.IsWorking)
             /\ seen.validated.IsValidated
             /\ seen.validated.IsWorking
             /\ seen.validated.ErrorCount = 0
             /\ seen.validated.Height = pass.check.status[1].Height

\* the first pass against the ring has ended: three new keys, three probes
\* that succeeded, height 2
C19_Witness ==
    /\ PassValidatedAll
    /\ pass.check.status[1].Height = 2
    /\ \A t \in AllTypes : pass.check.log[t].fresh
    /\ \A t \in AllTypes :
         endpoints[KeyOf(AdvertisedBy(pass.check.status[1], t))].Height = 2

(***************************************************************************)
(* Determinism of the selector, checked under Spec                         *)
(***************************************************************************)
\* the orders in which the two map ranges of a GetBestNode call can run
RangeOrders(endpointType) ==
    Perms(DOMAIN GetByNetwork(heightStore, Pocket, endpointType))
        \X Perms(GetValidatedEndpoints(endpoints, Pocket, endpointType))

\* what a call returns in the current state when its ranges run in order o
BestIn(endpointType, o) ==
    GetBestNode(heightStore, endpoints, config, Pocket, endpointType, o[1], o[2])

\* two or more candidates of the call at the maximum height share the
\* minimal latency
TiedAtTop ==
    LET heights == { sel.nodes[i].metrics.Height : i \in 1..Len(sel.nodes) }
        top == { i \in 1..Len(sel.nodes) : sel.nodes[i].metrics.Height = SetMax(heights) }
        fastest == { i \in top : \A j \in top :
                       sel.nodes[i].metrics.AvgLatency <= sel.nodes[j].metrics.AvgLatency }
    IN Cardinality(fastest) >= 2

CustomThresholds == {0, 1, MaxHeight}
AheadHeights == 0..(MaxInternalHeight + MaxHeight + 1)

NextThreshold ==
    \/ \E l \in Latencies :
         HeightStoreUpdate(Node1, <<"api">>, MaxInternalHeight, l) /\ UNCHANGED aux
    \/ StoreAdvertised(E1) /\ UNCHANGED aux
    \/ \E h \in AheadHeights : MarkValidated(E1, h, 2) /\ UNCHANGED aux
    \/ \E t \in CustomThresholds : ReloadConfig(t) /\ UNCHANGED aux
    \/ Select(Pocket, <<"api">>) /\ UNCHANGED aux
    \/ SelectReturn /\ UNCHANGED aux

SpecThreshold == Init /\ [][NextThreshold]_vars

\* the threshold the claim gives for the configuration of the call
ClaimedThreshold ==
    IF config.ExternalFailoverThreshold = 0 THEN 2 ELSE config.ExternalFailoverThreshold

TopPositions ==
    { i \in 1..Len(sel.nodes) :
        \A j \in 1..Len(sel.nodes) : sel.nodes[j].metrics.Height <= sel.nodes[i].metrics.Height }

\* the call chose between two internal nodes at the same maximum height,
\* above 0, with different latencies
TwoInternalsAtTop ==
    /\ Returned
    /\ Cardinality(TopPositions) = 2
    /\ TopPositions \subseteq InternalPositions
    /\ \E i, j \in TopPositions :
         /\ sel.nodes[i].metrics.Height > 0
         /\ sel.nodes[i].metrics.AvgLatency # sel.nodes[j].metrics.AvgLatency

E5 == [ExternalName |-> <<"pnf">>, RingURL |-> <<"ringB">>, Network |-> Pocket,
       Type |-> <<"rpc">>, URL |-> <<"https", "//node-1.internal", "26657">>]

\* what the steps of a request leave alone apart from `run'
auxErrors == <<nodeAvailable, online, sel, updates, mu, threads, held, resolve, pass,
    stream, tunnel, server,
    connPool, rings>>
\* what the writers leave alone apart from `run'
auxErrorsWriter == <<updates, mu, threads, held, resolve, req, pass,
    stream, tunnel, server,
    connPool, rings>>

ServerErrors == {"500", "502"}

\* the count after a forward to targetURL that ended with status
Consecutive(targetURL, status) ==
    IF targetURL # Flat(E3.URL) THEN run
    ELSE IF status \in ServerErrors THEN [run EXCEPT !.n = @ + 1]
    ELSE [run EXCEPT !.n = 0]

NextErrors ==
    \/ RequestArrives("http", <<"rpc">>, FALSE) /\ UNCHANGED <<run, auxErrors>>
    \/ ProxySelect /\ UNCHANGED <<run, auxErrors>>
    \/ ProxyResolve /\ UNCHANGED <<run, auxErrors>>
    \/ \E status \in HTTPStatuses :
         /\ ProxyForwardHTTP(status)
         /\ run' = Consecutive(req.targetURL, status)
         /\ UNCHANGED auxErrors
    \/ RequestReturns /\ UNCHANGED <<run, auxErrors>>
    \/ \E h \in InternalHeights :
         RPCCheckNodeOK(Node1, h, 1, FALSE) /\ UNCHANGED <<run, auxErrorsWriter>>
    \/ StoreAdvertised(E3) /\ UNCHANGED <<run, auxErrorsWriter>>
    \/ MarkValidated(E3, MaxHeight, 2) /\ run' = NoRun /\ UNCHANGED auxErrorsWriter
    \/ StoreAdvertised(E5) /\ UNCHANGED <<run, auxErrorsWriter>>
    \/ MarkValidated(E5, MaxInternalHeight, 2) /\ UNCHANGED <<run, auxErrorsWriter>>

SpecErrors == Init /\ [][NextErrors]_vars

\* C23: the external endpoint stops working only in a forward that is the
\* third in a row to end with a status of 500 or more: forwards to it that
\* ended below 500 in between restart the count.
C23_ThreeConsecutiveErrors ==
    [][(/\ KeyOf(E3) \in DOMAIN endpoints
        /\ endpoints[KeyOf(E3)].IsWorking
        /\ ~ endpoints'[KeyOf(E3)].IsWorking) => run'.n >= 3]_vars

\* C24: in every state of the endpoint store, an endpoint that is working
\* has an error count below 3.
C24_WorkingBelowThreshold ==
    \A k \in DOMAIN endpoints :
        endpoints[k].IsWorking => endpoints[k].ErrorCount < ErrorThreshold

\* one endpoint is working one error short of the threshold while another
\* has reached the threshold and stopped working
C24_Witness ==
    /\ \E k \in DOMAIN endpoints :
         endpoints[k].IsWorking /\ endpoints[k].ErrorCount = ErrorThreshold - 1
    /\ \E k \in DOMAIN endpoints :
         /\ endpoints[k].IsValidated
         /\ ~endpoints[k].IsWorking
         /\ endpoints[k].ErrorCount >= ErrorThreshold

(***************************************************************************)
(* SpecForward: the forwarding paths of both proxies with an external      *)
(* candidate on each: rpc requests, plain and WebSocket upgrade, with the  *)
(* internal node-1 and the external endpoint E3, and gRPC calls with the   *)
(* internal node-1 and the external endpoint E4.  The upstream can fail at *)
(* every point a handler reaches it.                                       *)
(***************************************************************************)
\* the grpc address ring A advertises, as an endpoint
E4 == [ExternalName |-> <<"pnf">>, RingURL |-> <<"ringA">>, Network |-> Pocket,
       Type |-> GRPC, URL |-> U3]

\* proxyHandler, getOrCreateConnection returns an error: Unavailable, and
\* the store is not called
ProxyDialFails ==
    /\ req.pc = "forward"
    /\ req.proxy = "grpc"
    /\ req' = [req EXCEPT !.pc = "done", !.response = "Unavailable"]
    /\ UNCHANGED <<heightStore, endpoints, config>>

\* proxyHandler, conn.NewStream returns an error: Internal, and the store is
\* not called
ProxyNewStreamFails ==
    /\ req.pc = "forward"
    /\ req.proxy = "grpc"
    /\ req' = [req EXCEPT !.pc = "done", !.response = "Internal"]
    /\ UNCHANGED <<heightStore, endpoints, config>>

NextForward ==
    \/ \E ws \in BOOLEAN : RequestArrives("http", <<"rpc">>, ws) /\ UNCHANGED auxProxy
    \/ RequestArrives("grpc", GRPC, FALSE) /\ UNCHANGED auxProxy
    \/ ProxySelect /\ UNCHANGED auxProxy
    \/ ProxyResolve /\ UNCHANGED auxProxy
    \/ \E status \in HTTPStatuses : ProxyForwardHTTP(status) /\ UNCHANGED auxProxy
    \/ \E status \in {"101", "502"} : HandleWebSocket(status) /\ UNCHANGED auxProxy
    \/ ProxyDialFails /\ UNCHANGED auxProxy
    \/ ProxyNewStreamFails /\ UNCHANGED auxProxy
    \/ \E code \in GRPCCodes : ProxyForwardGRPC(code) /\ UNCHANGED auxProxy
    \/ RequestReturns /\ UNCHANGED auxProxy
    \/ \E h \in InternalHeights : RPCCheckNodeOK(Node1, h, 1, TRUE) /\ UNCHANGED auxWriter
    \/ \E h \in InternalHeights : HeightStoreUpdate(Node1, GRPC, h, 1) /\ UNCHANGED auxWriter
    \/ \E a \in {E3, E4} : StoreAdvertised(a) /\ UNCHANGED auxWriter
    \/ \E a \in {E3, E4} : MarkValidated(a, MaxHeight, 2) /\ UNCHANGED auxWriter
    \/ UpdateWebSocketAvailability(E3, TRUE) /\ UNCHANGED auxWriter

SpecForward == Init /\ [][NextForward]_vars

\* the entries of the store for the target a request is about to be
\* forwarded to: not empty when the chosen candidate was external
TargetEntries ==
    IF req = Idle THEN {}
    ELSE ProxyTrackMatches(endpoints, Pocket, req.endpointType, req.targetURL)

\* this step is a handler's forwarding step and the upstream failed in it:
\* the reverse proxy's error handler answered, the tunnel set-up wrote its
\* 502 after the hijack, the dial or the stream creation returned an error,
\* or a frame forwarder ended with the transport's error
UpstreamFailed ==
    /\ req # Idle
    /\ req.pc \in {"forward", "websocket"}
    /\ req'.pc = "done"
    /\ \/ req.proxy = "http" /\ ~req.websocket /\ req'.response = "502"
       \/ req.websocket /\ req'.hijacked /\ req'.response = "502"
       \/ req.proxy = "grpc" /\ req'.forwarded = Nil
       \/ req.proxy = "grpc" /\ req'.forwarded # Nil /\ req'.response = "Unavailable"

\* C25: every upstream failure while forwarding to an external candidate is
\* answered 502 by the HTTP proxy and Unavailable by the gRPC proxy, and
\* adds one to the error count of an entry of that endpoint, on every path.
C25_ForwardFailureCounted ==
    [][(/\ UpstreamFailed
        /\ TargetEntries # {}
        /\ \A k \in TargetEntries : endpoints[k].ErrorCount < MaxErrorCount)
       => /\ req'.response = IF req.proxy = "grpc" THEN "Unavailable" ELSE "502"
          /\ \E k \in TargetEntries :
               endpoints'[k].ErrorCount = endpoints[k].ErrorCount + 1]_vars

\* the candidate a request was routed to is an internal node
ChoseInternal == req # Idle /\ req.nodeName # <<>> /\ Head(req.nodeName) # "ext"

\* C26: a forward to an internal node that ends with a status of 500 or more
\* leaves the error count and the working flag of every external endpoint
\* as they were.
C26_InternalErrorLeavesStore ==
    [][(/\ ChoseInternal
        /\ req.pc = "forward"
        /\ req'.pc = "done"
        /\ req'.response \in ServerErrors)
       => \A k \in DOMAIN endpoints :
            /\ endpoints'[k].ErrorCount = endpoints[k].ErrorCount
            /\ endpoints'[k].IsWorking = endpoints[k].IsWorking]_vars

(***************************************************************************)
(* SpecStream: GRPCProxy.proxyHandler from the two forwarding goroutines   *)
(* on.  Each forwarder loops over receive and send and ends by sending its *)
(* result on errChan (capacity 2): nil after a clean EOF, an error         *)
(* otherwise.  The handler receives once, and once more when the first     *)
(* result was nil.                                                         *)
(***************************************************************************)
MaxFrames == 1

auxStream == <<heightStore, endpoints, config, nodeAvailable, online, sel, run, updates,
               mu, threads, held, resolve, req, pass, tunnel, server,
    connPool, rings>>

Directions == {"client->server", "server->client"}

\* the error a forwarder wraps when its receive fails, and when its send fails
RecvError(d) == IF d = "client->server" THEN "recv from client" ELSE "recv from backend"
SendError(d) == IF d = "client->server" THEN "send to backend" ELSE "send to client"

\* the stream as the handler starts the forwarders; `sent' keeps every result
\* in the order the forwarders sent them
NewStream ==
    [pc |-> "wait1",
     forwarder |-> [d \in Directions |-> [pc |-> "recv", frames |-> 0]],
     errChan |-> <<>>, sent |-> <<>>, received |-> 0, proxyErr |-> "nil"]

\* errChan := make(chan error, 2)
ErrChanCapacity == 2

\* a channel with a single slot
HasRoomSingleSlot(errChan) == Len(errChan) < 1

\* a send on the buffered channel goes through while the buffer is not full
HasRoom(errChan) == Len(errChan) < ErrChanCapacity

\* errChan <- result; return.  With the buffer full the goroutine stays
\* blocked in the send.
Exit(st, d, result) ==
    IF HasRoom(st.errChan)
    THEN [st EXCEPT !.forwarder[d].pc = "exited",
                    !.errChan = Append(@, result),
                    !.sent = Append(@, result)]
    ELSE [st EXCEPT !.forwarder[d].pc = "blocked"]

StreamOpens ==
    /\ stream = Idle
    /\ stream' = NewStream

\* RecvMsg returned a frame
ForwarderRecv(d) ==
    /\ stream # Idle
    /\ stream.forwarder[d].pc = "recv"
    /\ stream.forwarder[d].frames < MaxFrames
    /\ stream' = [stream EXCEPT !.forwarder[d].pc = "send", !.forwarder[d].frames = @ + 1]

\* RecvMsg returned io.EOF
ForwarderEOF(d) ==
    /\ stream # Idle
    /\ stream.forwarder[d].pc = "recv"
    /\ stream' = Exit(stream, d, "nil")

\* RecvMsg returned another error
ForwarderRecvFails(d) ==
    /\ stream # Idle
    /\ stream.forwarder[d].pc = "recv"
    /\ stream' = Exit(stream, d, RecvError(d))

\* SendMsg returned nil
ForwarderSend(d) ==
    /\ stream # Idle
    /\ stream.forwarder[d].pc = "send"
    /\ stream' = [stream EXCEPT !.forwarder[d].pc = "recv"]

\* SendMsg returned an error
ForwarderSendFails(d) ==
    /\ stream # Idle
    /\ stream.forwarder[d].pc = "send"
    /\ stream' = Exit(stream, d, SendError(d))

\* a handler that waits for the second result whatever the first was
AfterFirstAlwaysWaits(st, err1) ==
    [st EXCEPT !.pc = "wait2", !.errChan = Tail(@), !.received = 1]

\* err1 := <-errChan and the branch on it
AfterFirst(st, err1) ==
    IF err1 # "nil"
    THEN [st EXCEPT !.pc = "returned", !.errChan = Tail(@), !.received = 1,
                    !.proxyErr = err1]
    ELSE [st EXCEPT !.pc = "wait2", !.errChan = Tail(@), !.received = 1]

HandlerReceivesFirst ==
    /\ stream # Idle
    /\ stream.pc = "wait1"
    /\ stream.errChan # <<>>
    /\ stream' = AfterFirst(stream, Head(stream.errChan))

\* err2 := <-errChan, the handler returns proxyErr
HandlerReceivesSecond ==
    /\ stream # Idle
    /\ stream.pc = "wait2"
    /\ stream.errChan # <<>>
    /\ stream' = [stream EXCEPT !.pc = "returned", !.errChan = Tail(@), !.received = 2,
                                !.proxyErr = Head(stream.errChan)]

\* the handler has returned and both goroutines are gone
StreamEnds ==
    /\ stream # Idle
    /\ stream.pc = "returned"
    /\ \A d \in Directions : stream.forwarder[d].pc = "exited"
    /\ stream' = Idle

NextStream ==
    \/ StreamOpens /\ UNCHANGED auxStream
    \/ \E d \in Directions : ForwarderRecv(d) /\ UNCHANGED auxStream
    \/ \E d \in Directions : ForwarderEOF(d) /\ UNCHANGED auxStream
    \/ \E d \in Directions : ForwarderRecvFails(d) /\ UNCHANGED auxStream
    \/ \E d \in Directions : ForwarderSend(d) /\ UNCHANGED auxStream
    \/ \E d \in Directions : ForwarderSendFails(d) /\ UNCHANGED auxStream
    \/ HandlerReceivesFirst /\ UNCHANGED auxStream
    \/ HandlerReceivesSecond /\ UNCHANGED auxStream
    \/ StreamEnds /\ UNCHANGED auxStream

SpecStream == Init /\ [][NextStream]_vars

\* C27: the handler returns the first forwarder result when it is an error,
\* having received once, whatever the other forwarder is doing; when the
\* first result is a clean EOF it has received both results and returns the
\* second; it returns nil only when both results were clean EOFs; and it
\* never returns before a forwarder has sent a result.
C27_FirstErrorOrSecondResult ==
    (stream # Idle /\ stream.pc = "returned") =>
        /\ Len(stream.sent) >= 1
        /\ stream.sent[1] # "nil" =>
             stream.received = 1 /\ stream.proxyErr = stream.sent[1]
        /\ stream.sent[1] = "nil" =>
             /\ stream.received = 2
             /\ Len(stream.sent) = 2
             /\ stream.proxyErr = stream.sent[2]
        /\ stream.proxyErr = "nil" <=>
             (Len(stream.sent) = 2 /\ \A i \in 1..2 : stream.sent[i] = "nil")

\* the handler has returned the first forwarder's error while the other
\* forwarder is still forwarding
C27_Witness ==
    /\ stream # Idle
    /\ stream.pc = "returned"
    /\ stream.proxyErr = "recv from backend"
    /\ stream.forwarder["client->server"].pc # "exited"

(***************************************************************************)
(* SpecTunnel: handleWebSocket from the bidirectional copy on.  Each       *)
(* copier runs io.Copy from one socket to the other and sends the result   *)
(* on errChan (capacity 2).  The handler receives one result and returns;  *)
(* its deferred calls close the backend socket, then the client socket.    *)
(* A Read on a closed socket returns, so a copier whose source is closed   *)
(* leaves io.Copy; while the sockets are open a copy may go on forever.    *)
(***************************************************************************)
auxTunnel == <<heightStore, endpoints, config, nodeAvailable, online, sel, run, updates,
               mu, threads, held, resolve, req, pass, stream, server,
    connPool, rings>>

Copiers == {"client->backend", "backend->client"}

\* the socket a copier reads
SourceOf(c) == IF c = "client->backend" THEN "clientConn" ELSE "backendConn"

NewTunnel ==
    [pc |-> "wait", clientConn |-> "open", backendConn |-> "open",
     copier |-> [c \in Copiers |-> [pc |-> "copying", chunks |-> 0]],
     errChan |-> <<>>, sent |-> <<>>, err |-> ""]

\* errChan <- err at the end of a copier.  With the buffer full the
\* goroutine stays blocked in the send.
CopierExit(t, c, err) ==
    IF HasRoom(t.errChan)
    THEN [t EXCEPT !.copier[c].pc = "exited",
                   !.errChan = Append(@, err),
                   !.sent = Append(@, err)]
    ELSE [t EXCEPT !.copier[c].pc = "blocked"]

\* a deferred Close that leaves the client socket open
CloseConnBackendOnly(t, conn) ==
    IF conn = "backendConn" THEN [t EXCEPT !.backendConn = "closed"] ELSE t

\* defer func() { _ = conn.Close() }()
CloseConn(t, conn) == [t EXCEPT ![conn] = "closed"]

TunnelOpens ==
    /\ tunnel = Idle
    /\ tunnel' = NewTunnel

\* io.Copy moves a chunk
CopierCopies(c) ==
    /\ tunnel # Idle
    /\ tunnel.copier[c].pc = "copying"
    /\ tunnel.clientConn = "open" /\ tunnel.backendConn = "open"
    /\ tunnel.copier[c].chunks < MaxFrames
    /\ tunnel' = [tunnel EXCEPT !.copier[c].chunks = @ + 1]

\* io.Copy returns on open sockets: the peer closed its side (nil) or the
\* connection broke
CopierFinishes(c, err) ==
    /\ tunnel # Idle
    /\ tunnel.copier[c].pc = "copying"
    /\ tunnel[SourceOf(c)] = "open"
    /\ tunnel' = CopierExit(tunnel, c, err)

\* io.Copy returns because the socket it reads has been closed
CopierUnblocks(c) ==
    /\ tunnel # Idle
    /\ tunnel.copier[c].pc = "copying"
    /\ tunnel[SourceOf(c)] = "closed"
    /\ tunnel' = CopierExit(tunnel, c, "closed")

\* err = <-errChan
TunnelReceives ==
    /\ tunnel # Idle
    /\ tunnel.pc = "wait"
    /\ tunnel.errChan # <<>>
    /\ tunnel' = [tunnel EXCEPT !.pc = "closeBackend", !.errChan = Tail(@),
                                !.err = Head(tunnel.errChan)]

\* the deferred calls, last registered first
TunnelClosesBackend ==
    /\ tunnel # Idle
    /\ tunnel.pc = "closeBackend"
    /\ tunnel' = [CloseConn(tunnel, "backendConn") EXCEPT !.pc = "closeClient"]

TunnelClosesClient ==
    /\ tunnel # Idle
    /\ tunnel.pc = "closeClient"
    /\ tunnel' = [CloseConn(tunnel, "clientConn") EXCEPT !.pc = "returned"]

\* the handler has returned and both copiers are gone
TunnelEnds ==
    /\ tunnel # Idle
    /\ tunnel.pc = "returned"
    /\ \A c \in Copiers : tunnel.copier[c].pc = "exited"
    /\ tunnel' = Idle

NextTunnel ==
    \/ TunnelOpens /\ UNCHANGED auxTunnel
    \/ \E c \in Copiers : CopierCopies(c) /\ UNCHANGED auxTunnel
    \/ \E c \in Copiers, err \in {"nil", "reset"} : CopierFinishes(c, err) /\ UNCHANGED auxTunnel
    \/ \E c \in Copiers : CopierUnblocks(c) /\ UNCHANGED auxTunnel
    \/ TunnelReceives /\ UNCHANGED auxTunnel
    \/ TunnelClosesBackend /\ UNCHANGED auxTunnel
    \/ TunnelClosesClient /\ UNCHANGED auxTunnel
    \/ TunnelEnds /\ UNCHANGED auxTunnel

\* the goroutines are scheduled: a Read on a closed socket returns, and the
\* handler runs its deferred calls once it has received
SpecTunnel ==
    /\ Init
    /\ [][NextTunnel]_vars
    /\ \A c \in Copiers : WF_vars(CopierUnblocks(c) /\ UNCHANGED auxTunnel)
    /\ WF_vars(TunnelClosesBackend /\ UNCHANGED auxTunnel)
    /\ WF_vars(TunnelClosesClient /\ UNCHANGED auxTunnel)
    /\ WF_vars(TunnelEnds /\ UNCHANGED auxTunnel)

TunnelReturned == tunnel # Idle /\ tunnel.pc = "returned"

CopiersExited == tunnel # Idle /\ \A c \in Copiers : tunnel.copier[c].pc = "exited"

\* C28: the handler leaves its wait with the first result a copier sent,
\* whatever the other copier is doing; when it has returned both sockets are
\* closed; and after it has received a result both copiers end.
C28_TunnelUnwinds ==
    /\ [](TunnelReturned =>
            /\ tunnel.err = tunnel.sent[1]
            /\ tunnel.clientConn = "closed"
            /\ tunnel.backendConn = "closed")
    /\ [][(tunnel # Idle /\ tunnel.pc = "wait" /\ tunnel.errChan # <<>>)
           => ENABLED (TunnelReceives /\ UNCHANGED auxTunnel)]_vars
    /\ ((tunnel # Idle /\ tunnel.pc # "wait") ~> CopiersExited)

\* the handler has returned after one direction ended while the other copier
\* is still inside io.Copy
C28_Witness ==
    /\ TunnelReturned
    /\ tunnel.copier["client->backend"].pc = "copying"
    /\ tunnel.copier["backend->client"].pc = "exited"

\* the pass in progress got a status with height 0
ZeroHeightPass(p) ==
    p.check # Idle /\ p.check.status # Nil /\ p.check.status[1].Height = 0

\* C29: a pass whose ring answered with height 0 has failed with
\* "zero_height" and has stored, validated and failed nothing, whatever URLs
\* the answer advertises, and none of its steps changes the endpoint store.
C29_ZeroHeightLeavesStore ==
    /\ [](ZeroHeightPass(pass) =>
            /\ pass.check.pc = "done"
            /\ pass.check.err = "zero_height"
            /\ pass.check.log = EmptyMap)
    /\ [][((ZeroHeightPass(pass) \/ ZeroHeightPass(pass')) /\ pass' # pass)
           => endpoints' = endpoints]_vars

\* a ring whose endpoints an earlier pass validated has now answered with
\* height 0 and three URLs: the entries are still validated
C29_Witness ==
    /\ ZeroHeightPass(pass)
    /\ \A t \in AllTypes : StatusURL(pass.check.status[1], t) # <<>>
    /\ \A t \in AllTypes :
         LET k == KeyOf(AdvertisedBy(pass.check.status[1], t)) IN
         k \in DOMAIN endpoints /\ endpoints[k].IsValidated /\ endpoints[k].Height > 0

(***************************************************************************)
(* SpecShutdown: the server while it serves and through Server.Shutdown.   *)
(* The cron jobs of the scheduler submit probe tasks to the worker pool    *)
(* and return; a task of the external checker takes its gRPC connection    *)
(* from the checker's pool of connections, a proxied gRPC stream takes its *)
(* connection from the proxy's.  Shutdown runs Scheduler.Stop, the HTTP    *)
(* servers' Shutdown, the gRPC servers' GracefulStop, pool.StopAndWait and *)
(* cache.Close, in that order.                                             *)
(***************************************************************************)
MaxTasks == 2
MaxStreams == 1

auxShutdown == <<heightStore, endpoints, config, nodeAvailable, online, sel, run, updates,
                 mu, threads, held, resolve, req, pass, stream, tunnel,
    connPool, rings>>

Tasks == 1..MaxTasks

\* how the probe of a task ends: it got its answer, or the deadline of its
\* own context, context.WithTimeout(context.Background(), s.timeout), passed
ProbeEnds == {"completed", "timeout"}

\* the server after Start: serving, no cron job running, no task in the
\* pool, no stream, no pooled connection yet; `ended' keeps how the last
\* probe of each task ended
Serving ==
    [pc |-> "serving", cron |-> "idle", task |-> [i \in Tasks |-> "none"],
     ended |-> [i \in Tasks |-> ""],
     streams |-> 0, pool |-> "running", http |-> "serving", grpc |-> "serving",
     checkerConn |-> "none", proxyConn |-> "none"]

ServerStarts ==
    /\ server = Idle
    /\ server' = Serving

\* a cron entry fires: checkExternalRings starts
CronFires ==
    /\ server # Idle
    /\ server.pc = "serving"
    /\ server.cron = "idle"
    /\ server' = [server EXCEPT !.cron = "job"]

\* s.pool.Go(func() { ... CheckExternal ... })
JobSubmits(i) ==
    /\ server # Idle
    /\ server.cron = "job"
    /\ server.pool = "running"
    /\ server.task[i] = "none"
    /\ server' = [server EXCEPT !.task[i] = "queued", !.ended[i] = ""]

\* the cron job returns, its tasks still in the pool
JobReturns ==
    /\ server # Idle
    /\ server.cron = "job"
    /\ server' = [server EXCEPT !.cron = "idle"]

\* a task reaches getGRPCConnection: the pooled connection, made if absent
TaskProbes(i) ==
    /\ server # Idle
    /\ server.task[i] = "queued"
    /\ server' = [server EXCEPT !.task[i] = "probing",
                                !.checkerConn = "open"]

\* the probe returns under its own context, which nothing cancels
TaskEnds(i, how) ==
    /\ server # Idle
    /\ server.task[i] = "probing"
    /\ server' = [server EXCEPT !.task[i] = "none", !.ended[i] = how]

\* proxyHandler, getOrCreateConnection: a stream on the proxy's connection
ProxyStreamOpens ==
    /\ server # Idle
    /\ server.grpc = "serving"
    /\ server.pc \in {"serving", "cronStop", "closeCheckers", "httpShutdown"}
    /\ server.streams < MaxStreams
    /\ server' = [server EXCEPT !.streams = @ + 1, !.proxyConn = "open"]

ProxyStreamEnds ==
    /\ server # Idle
    /\ server.streams > 0
    /\ server' = [server EXCEPT !.streams = @ - 1]

\* the signal arrives: Shutdown calls s.scheduler.Stop()
ShutdownStarts ==
    /\ server # Idle
    /\ server.pc = "serving"
    /\ server' = [server EXCEPT !.pc = "cronStop"]

\* ctx := s.cron.Stop(); <-ctx.Done(): the running cron jobs have returned
CronStopped ==
    /\ server # Idle
    /\ server.pc = "cronStop"
    /\ server.cron = "idle"
    /\ server' = [server EXCEPT !.pc = "closeCheckers"]

\* s.grpcChecker.Close() ... s.extChecker.Close(): the checkers' pooled
\* connections are closed and their maps cleared
CloseCheckers ==
    /\ server # Idle
    /\ server.pc = "closeCheckers"
    /\ server' = [server EXCEPT !.pc = "httpShutdown",
                                !.checkerConn = IF @ = "open" THEN "closed" ELSE @]

\* statusServer.Shutdown(ctx) and httpServer.Shutdown(ctx) of every proxy
HTTPShutdown ==
    /\ server # Idle
    /\ server.pc = "httpShutdown"
    /\ server' = [server EXCEPT !.pc = "grpcStop", !.http = "drained"]

\* grpcServer.GracefulStop(): returns when the streams in flight have ended
GracefulStop ==
    /\ server # Idle
    /\ server.pc = "grpcStop"
    /\ server.streams = 0
    /\ server' = [server EXCEPT !.pc = "poolStop", !.grpc = "drained"]

\* s.pool.StopAndWait(): returns when the submitted tasks have ended
PoolStopAndWait ==
    /\ server # Idle
    /\ server.pc = "poolStop"
    /\ \A i \in Tasks : server.task[i] = "none"
    /\ server' = [server EXCEPT !.pc = "closeCache", !.pool = "stopped"]

\* s.cache.Close(); Shutdown returns
ShutdownReturns ==
    /\ server # Idle
    /\ server.pc = "closeCache"
    /\ server' = [server EXCEPT !.pc = "done"]

NextShutdown ==
    \/ ServerStarts /\ UNCHANGED auxShutdown
    \/ CronFires /\ UNCHANGED auxShutdown
    \/ \E i \in Tasks : JobSubmits(i) /\ UNCHANGED auxShutdown
    \/ JobReturns /\ UNCHANGED auxShutdown
    \/ \E i \in Tasks : TaskProbes(i) /\ UNCHANGED auxShutdown
    \/ \E i \in Tasks, how \in ProbeEnds : TaskEnds(i, how) /\ UNCHANGED auxShutdown
    \/ ProxyStreamOpens /\ UNCHANGED auxShutdown
    \/ ProxyStreamEnds /\ UNCHANGED auxShutdown
    \/ ShutdownStarts /\ UNCHANGED auxShutdown
    \/ CronStopped /\ UNCHANGED auxShutdown
    \/ CloseCheckers /\ UNCHANGED auxShutdown
    \/ HTTPShutdown /\ UNCHANGED auxShutdown
    \/ GracefulStop /\ UNCHANGED auxShutdown
    \/ PoolStopAndWait /\ UNCHANGED auxShutdown
    \/ ShutdownReturns /\ UNCHANGED auxShutdown

SpecShutdown == Init /\ [][NextShutdown]_vars

\* a probe task or a proxied stream can still be running
WorkInFlight(sv) ==
    \/ \E i \in Tasks : sv.task[i] # "none"
    \/ sv.streams > 0
    \/ sv.pool = "running"

\* C30: the worker pool is stopped only after the HTTP and the gRPC servers
\* have drained; a pooled connection is closed only when no probe task and
\* no proxied stream can still be running; and when Shutdown has returned
\* no pooled connection is left open.
C30_ConnectionsClosedLast ==
    /\ []((server # Idle /\ server.pool = "stopped") =>
            server.http = "drained" /\ server.grpc = "drained")
    /\ [][(server # Idle /\ server' # Idle
           /\ \/ server.checkerConn = "open" /\ server'.checkerConn = "closed"
              \/ server.proxyConn = "open" /\ server'.proxyConn = "closed")
          => ~WorkInFlight(server)]_vars
    /\ []((server # Idle /\ server.pc = "done") =>
            server.checkerConn # "open" /\ server.proxyConn # "open")

\* C31: once Shutdown is under way no probe runs on until the deadline of
\* its own context: a probe that was in flight ends before that, aborted at
\* its next suspension point.
C31_ProbesAbortOnShutdown ==
    [][\A i \in Tasks :
         (/\ server # Idle /\ server' # Idle
          /\ server.pc # "serving"
          /\ server.task[i] = "probing"
          /\ server'.task[i] = "none")
         => server'.ended[i] # "timeout"]_vars

(***************************************************************************)
(* SpecPool: GRPCProxy.getOrCreateConnection for one target, called by two *)
(* handlers at once.  connMu is a read-write mutex: the first look at the  *)
(* pool is under RLock, the second look and the creation under Lock.  A    *)
(* connection goes to SHUTDOWN when it is closed.                          *)
(***************************************************************************)
MaxConns == 3

auxPool == <<heightStore, endpoints, config, nodeAvailable, online, sel, run, updates,
             mu, threads, held, resolve, req, pass, stream, tunnel, server, rings>>

Callers == {1, 2}

\* NewGRPCProxy: an empty pool, connMu free, no connection created yet.
\* `pool' is the connection cached for the target, 0 for none; `state' has
\* the state of every connection created so far.
NewPool ==
    [pool |-> 0, state |-> <<>>, readers |-> {}, writer |-> 0,
     caller |-> [c \in Callers |-> [pc |-> "idle", ret |-> Nil]]]

\* conn, exists := p.connPool[targetAddr]; exists && state != "SHUTDOWN"
Cached(cp) == cp.pool # 0 /\ cp.state[cp.pool] # "SHUTDOWN"

\* a second look that never finds the connection
DoubleCheckSkipped(cp) == FALSE

\* the second look, under the write lock
DoubleCheck(cp) == Cached(cp)

PoolOpens ==
    /\ connPool = Idle
    /\ connPool' = NewPool

ConnCall(c) ==
    /\ connPool # Idle
    /\ connPool.caller[c].pc = "idle"
    /\ connPool' = [connPool EXCEPT !.caller[c] = [pc |-> "rlock", ret |-> Nil]]

\* p.connMu.RLock()
ConnRLock(c) ==
    /\ connPool # Idle
    /\ connPool.caller[c].pc = "rlock"
    /\ connPool.writer = 0
    /\ connPool' = [connPool EXCEPT !.readers = @ \cup {c}, !.caller[c].pc = "check"]

\* the first look and p.connMu.RUnlock(): the cached connection is returned
ConnCheck(c) ==
    /\ connPool # Idle
    /\ connPool.caller[c].pc = "check"
    /\ connPool' = [connPool EXCEPT
                      !.readers = @ \ {c},
                      !.caller[c] = IF Cached(connPool)
                                    THEN [pc |-> "returned", ret |-> Ref(connPool.pool)]
                                    ELSE [pc |-> "lock", ret |-> Nil]]

\* p.connMu.Lock()
ConnLock(c) ==
    /\ connPool # Idle
    /\ connPool.caller[c].pc = "lock"
    /\ connPool.writer = 0
    /\ connPool.readers = {}
    /\ connPool' = [connPool EXCEPT !.writer = c, !.caller[c].pc = "recheck"]

\* the second look, grpc.NewClient and p.connPool[targetAddr] = conn, then
\* the deferred Unlock; ok is whether NewClient returned a connection
ConnCreate(c, ok) ==
    /\ connPool # Idle
    /\ connPool.caller[c].pc = "recheck"
    /\ DoubleCheck(connPool) \/ Len(connPool.state) < MaxConns
    /\ LET id == Len(connPool.state) + 1 IN
       connPool' =
         IF DoubleCheck(connPool)
         THEN [connPool EXCEPT !.writer = 0,
                               !.caller[c] = [pc |-> "returned", ret |-> Ref(connPool.pool)]]
         ELSE IF ~ok
         THEN [connPool EXCEPT !.writer = 0,
                               !.caller[c] = [pc |-> "returned", ret |-> Nil]]
         ELSE [connPool EXCEPT !.writer = 0,
                               !.state = Append(@, "READY"),
                               !.pool = id,
                               !.caller[c] = [pc |-> "returned", ret |-> Ref(id)]]

\* the caller is done with the call
ConnReturn(c) ==
    /\ connPool # Idle
    /\ connPool.caller[c].pc = "returned"
    /\ connPool' = [connPool EXCEPT !.caller[c] = [pc |-> "idle", ret |-> Nil]]

\* conn.Close(): the connection is in SHUTDOWN from now on
ConnShutsDown(id) ==
    /\ connPool # Idle
    /\ id \in DOMAIN connPool.state
    /\ connPool.state[id] = "READY"
    /\ connPool' = [connPool EXCEPT !.state[id] = "SHUTDOWN"]

NextPool ==
    \/ PoolOpens /\ UNCHANGED auxPool
    \/ \E c \in Callers : ConnCall(c) /\ UNCHANGED auxPool
    \/ \E c \in Callers : ConnRLock(c) /\ UNCHANGED auxPool
    \/ \E c \in Callers : ConnCheck(c) /\ UNCHANGED auxPool
    \/ \E c \in Callers : ConnLock(c) /\ UNCHANGED auxPool
    \/ \E c \in Callers, ok \in BOOLEAN : ConnCreate(c, ok) /\ UNCHANGED auxPool
    \/ \E c \in Callers : ConnReturn(c) /\ UNCHANGED auxPool
    \/ \E id \in 1..MaxConns : ConnShutsDown(id) /\ UNCHANGED auxPool

SpecPool == Init /\ [][NextPool]_vars

\* caller c gets its result in this step
Returns(c) ==
    /\ connPool # Idle
    /\ connPool.caller[c].pc # "returned"
    /\ connPool'.caller[c].pc = "returned"

\* C32: a call returns the cached connection, creating none, when one is
\* cached that is not in SHUTDOWN; otherwise it creates at most one
\* connection, caches it and returns it; the connection a caller receives is
\* the one in the pool; and every connection created that is not in SHUTDOWN
\* is the one in the pool.
C32_OnePooledConnection ==
    /\ [](connPool # Idle =>
            \A id \in DOMAIN connPool.state :
                connPool.state[id] # "SHUTDOWN" => connPool.pool = id)
    /\ [][\A c \in Callers : Returns(c) =>
            /\ Cached(connPool) =>
                 /\ connPool'.caller[c].ret = Ref(connPool.pool)
                 /\ connPool'.state = connPool.state
                 /\ connPool'.pool = connPool.pool
            /\ ~Cached(connPool) =>
                 /\ Len(connPool'.state) <= Len(connPool.state) + 1
                 /\ connPool'.caller[c].ret # Nil =>
                      /\ Len(connPool'.state) = Len(connPool.state) + 1
                      /\ connPool'.caller[c].ret = Ref(Len(connPool'.state))
            /\ connPool'.caller[c].ret # Nil =>
                 connPool'.caller[c].ret = Ref(connPool'.pool)]_vars

\* both callers missed under the read lock, one created the connection and
\* the other received that same connection from its second look
C32_Witness ==
    /\ connPool # Idle
    /\ Len(connPool.state) = 1
    /\ connPool.pool = 1
    /\ \A c \in Callers :
         connPool.caller[c].pc = "returned" /\ connPool.caller[c].ret = Ref(1)

\* C33: when a (network, protocol, URL) is stored under more than one key,
\* after 3 consecutive TrackProxyError calls for it GetValidatedEndpoints
\* returns no endpoint with that URL.
C33_SharedURLExcluded ==
    (/\ run.key # Nil
     /\ run.op = "TrackProxyError"
     /\ run.n >= 3
     /\ Cardinality(TrackMatches(endpoints, endpoints[run.key].Network,
                                 endpoints[run.key].Type, endpoints[run.key].URL)) > 1)
    => \A k \in GetValidatedEndpoints(endpoints, endpoints[run.key].Network,
                                      endpoints[run.key].Type) :
         endpoints[k].URL # endpoints[run.key].URL

(***************************************************************************)
(* SpecReload: api requests through HTTPProxy.ServeHTTP while the API      *)
(* health check stores the heights of the internal nodes the configuration *)
(* lists and the loader replaces the configuration.  Nothing deletes an    *)
(* entry of the height store.                                              *)
(***************************************************************************)
\* checkInternalNodes reaches the node: the configuration lists it with an
\* api URL
ListedAPI(cfg, node) ==
    \E i \in 1..Len(cfg.Internals) :
        cfg.Internals[i].Name = Flat(node.Name) /\ cfg.Internals[i].API # <<>>

NextReload ==
    \/ RequestArrives("http", <<"api">>, FALSE) /\ UNCHANGED auxProxy
    \/ ProxySelect /\ UNCHANGED auxProxy
    \/ ProxyResolve /\ UNCHANGED auxProxy
    \/ \E status \in {"200", "500"} : ProxyForwardHTTP(status) /\ UNCHANGED auxProxy
    \/ RequestReturns /\ UNCHANGED auxProxy
    \/ \E n \in {Node1, Node2}, h \in InternalHeights :
         /\ ListedAPI(config, n)
         /\ HeightStoreUpdate(n, <<"api">>, h, 1)
         /\ UNCHANGED auxWriter
    \/ \E i \in {InternalsSchemes, InternalsOne} : ReloadInternals(i)

SpecReload == Init /\ [][NextReload]_vars

\* C34: the identifier a GetBestNode call returns resolves through
\* GetEndpointURL, under the configuration of that moment, to a target that
\* is not empty.
C34_SelectionResolves ==
    [][(/\ req # Idle /\ req' # Idle
        /\ req.pc = "select"
        /\ req'.nodeName # <<>>)
       => GetEndpointURL(config, Flat(req'.nodeName), Flat(req'.endpointType)) # <<>>]_vars

(***************************************************************************)
(* SpecRings: two deployments that list each other as externals.  Each     *)
(* ring has its own height store (one internal node, api) and its own      *)
(* endpoint store; a discovery pass of one ring reads the status handler   *)
(* of the other, and a client request is routed by the selector of the     *)
(* ring it is at, to an internal node or on to the peer's advertised URL.  *)
(***************************************************************************)
MaxChecks == 2
MaxHops == 3

auxRings == <<heightStore, endpoints, config, nodeAvailable, online, sel, run, updates,
              mu, threads, held, resolve, req, pass, stream, tunnel, server, connPool>>

RingNames == {<<"ringA">>, <<"ringB">>}
Peer(r) == CHOOSE o \in RingNames : o # r

\* networkConfig.API of ring r: the URL its status response advertises
RingAPI(r) == IF r = <<"ringA">> THEN U1 ELSE U2

\* the endpoint of ring r as its peer stores it
RingEndpoint(r) ==
    [ExternalName |-> <<"peer">>, RingURL |-> r, Network |-> Pocket,
     Type |-> <<"api">>, URL |-> RingAPI(r)]

\* HeightStore.GetHighestHeight
GetHighestHeight(store, network, endpointType) ==
    LET nodesMap == GetByNetwork(store, network, endpointType) IN
    SetMax({ nodesMap[n].Height : n \in DOMAIN nodesMap })

\* Selector.GetHighestHeights for one enabled type: the internal maximum,
\* raised by every validated external endpoint that is higher
GetHighestHeights(store, eps, network, endpointType) ==
    LET height == GetHighestHeight(store, network, endpointType)
        external == { eps[k].Height : k \in GetValidatedEndpoints(eps, network, endpointType) }
    IN SetMax({height} \cup external)

\* handleStatus: 404 (height 0 here) when no type has a height, else the
\* maximum height and the advertised URL
StatusOf(ring) ==
    GetHighestHeights(ring.heightStore, ring.endpoints, Pocket, <<"api">>)

RingsStart ==
    /\ rings = Idle
    /\ rings' = [pc |-> "running",
                 ring |-> [r \in RingNames |->
                             [heightStore |-> EmptyMap, endpoints |-> EmptyMap]],
                 hops |-> <<>>, answer |-> ""]
    /\ UNCHANGED auxRings

\* APIChecker.CheckNode of ring r succeeds with the height its node reports
RingChecksNode(r, height) ==
    /\ rings # Idle
    /\ LET store == rings.ring[r].heightStore
           key == makeKey(Pocket, Node1.Name, <<"api">>) IN
       /\ key \in DOMAIN store => Len(store[key].LatencyHistory) < MaxChecks
       /\ rings' = [rings EXCEPT !.ring[r].heightStore =
                      Update(store, Pocket, Node1.Name, <<"api">>, height, 1, "internal")]
    /\ UNCHANGED auxRings

\* queryRing of ring r against its peer: an error when the peer answers 404
\* or a zero height; else StoreAdvertised and validateEndpoint with the
\* height of the status response
RingDiscovers(r, reachable) ==
    /\ rings # Idle
    /\ LET status == StatusOf(rings.ring[Peer(r)])
           a == RingEndpoint(Peer(r))
           stored == StoreAdvertisedOp(rings.ring[r].endpoints, a) IN
       IF status = 0
       THEN UNCHANGED rings
       ELSE rings' = [rings EXCEPT !.ring[r].endpoints =
                        IF reachable
                        THEN MarkValidatedOp(stored, a, status, 2)
                        ELSE MarkValidationFailedOp(stored, a)]
    /\ UNCHANGED auxRings

\* a client request for the api of pocket arrives at ring r
RingRequest(r) ==
    /\ rings # Idle
    /\ rings.hops = <<>>
    /\ rings' = [rings EXCEPT !.hops = <<r>>, !.answer = ""]
    /\ UNCHANGED auxRings

\* ServeHTTP of the ring the request is at: 503 with no candidate, the
\* backend's answer for an internal node, and for ext:<URL> the request goes
\* to the ring that advertises the URL
RingRoutes ==
    /\ rings # Idle
    /\ rings.hops # <<>>
    /\ rings.answer = ""
    /\ Len(rings.hops) < MaxHops
    /\ LET r == rings.hops[Len(rings.hops)]
           ring == rings.ring[r] IN
       \E internalOrder \in Perms(DOMAIN GetByNetwork(ring.heightStore, Pocket, <<"api">>)),
          externalOrder \in Perms(GetValidatedEndpoints(ring.endpoints, Pocket, <<"api">>)) :
         LET best == GetBestNode(ring.heightStore, ring.endpoints, config, Pocket,
                                 <<"api">>, internalOrder, externalOrder).result IN
         rings' = IF best.name = <<>>
                  THEN [rings EXCEPT !.answer = "503"]
                  ELSE IF best.name = <<"ext">> \o RingAPI(Peer(r))
                  THEN [rings EXCEPT !.hops = Append(@, Peer(r))]
                  ELSE [rings EXCEPT !.answer = "200"]
    /\ UNCHANGED auxRings

\* the client gets its answer, or gives up on a request that is still going
\* round
RingRequestEnds ==
    /\ rings # Idle
    /\ rings.hops # <<>>
    /\ rings.answer # "" \/ Len(rings.hops) = MaxHops
    /\ rings' = [rings EXCEPT !.hops = <<>>, !.answer = ""]
    /\ UNCHANGED auxRings

NextRings ==
    \/ RingsStart
    \/ \E r \in RingNames, h \in InternalHeights : RingChecksNode(r, h)
    \/ \E r \in RingNames, reachable \in BOOLEAN : RingDiscovers(r, reachable)
    \/ \E r \in RingNames : RingRequest(r)
    \/ RingRoutes
    \/ RingRequestEnds

SpecRings == Init /\ [][NextRings]_vars

\* no internal node of ring r has a height above zero
NoInternalHeight(r) == GetHighestHeight(rings.ring[r].heightStore, Pocket, <<"api">>) = 0

\* C35: while neither ring has an internal node at a non-zero height, a
\* request one ring forwarded to its peer is not forwarded by the peer back
\* to the first ring.
C35_NoForwardingCycle ==
    (rings # Idle /\ \A r \in RingNames : NoInternalHeight(r))
        => ~(Len(rings.hops) >= 3 /\ rings.hops[1] = rings.hops[3])

(***************************************************************************)
(* SpecDrop: discovery passes against a ring whose status response         *)
(* changes: it may drop URLs it advertised, or stop answering.  `rings'    *)
(* holds what the ring answers at present.  The cron job starts a pass     *)
(* every interval, and a pass that has started runs to its end.            *)
(***************************************************************************)
\* what the ring may answer: the three URLs, the api URL only, another rpc
\* URL in place of the first, or nothing
RemoteAnswers ==
    {Ref(RingStatus(1, U1, U2, U3)), Ref(RingStatus(1, U1, <<>>, <<>>)),
     Ref(RingStatus(1, U1, U1, U3)), Nil}

RemoteStarts ==
    /\ rings = Idle
    /\ rings' = [pc |-> "remote", status |-> Ref(RingStatus(1, U1, U2, U3))]
    /\ UNCHANGED auxRings

RemoteChanges(answer) ==
    /\ rings # Idle
    /\ rings.status # answer
    /\ rings' = [rings EXCEPT !.status = answer]
    /\ UNCHANGED auxRings

\* queryRing gets what the ring answers now
DropQueryRing ==
    /\ rings # Idle
    /\ IF rings.status = Nil THEN QueryRingFails ELSE QueryRing(rings.status[1])

NextDrop ==
    \/ RemoteStarts
    \/ \E answer \in RemoteAnswers : RemoteChanges(answer)
    \/ DropQueryRing
    \/ CheckStore
    \/ \E ok \in BOOLEAN : CheckValidate(ok)
    \/ CheckReturn
    \/ TrackProxyError(E3.Network, E3.Type, E3.URL) /\ UNCHANGED aux

SpecDrop ==
    /\ Init
    /\ [][NextDrop]_vars
    /\ WF_vars(DropQueryRing)
    /\ WF_vars(CheckStore)
    /\ WF_vars(\E ok \in BOOLEAN : CheckValidate(ok))
    /\ WF_vars(CheckReturn)

\* the ring's present answer does not advertise the endpoint
NotAdvertised(a) ==
    /\ rings # Idle
    /\ rings.status = Nil \/ StatusURL(rings.status[1], a.Type) # a.URL

\* C36: with discovery passes running for ever, an endpoint does not stay a
\* candidate for ever after the last status that advertised it: again and
\* again it is advertised or it is not returned by GetValidatedEndpoints.
C36_DroppedEndpointLeaves == []<>(~ NotAdvertised(E3) \/ ~ Eligible(E3))

\* C37: the turn of the recovery loop leaves the height of every stored
\* endpoint as it was, also when a discovery pass has stored a newer height
\* since GetFailedEndpoints made the copy the turn works with.
C37_RecoveryKeepsHeight ==
    [][(/\ pass.recover # Idle
        /\ pass.recover.pc = "probe"
        /\ pass'.recover # pass.recover)
       => \A k \in DOMAIN endpoints : endpoints'[k].Height = endpoints[k].Height]_vars

(***************************************************************************)
(* SpecChannels: a gRPC stream bridge and a WebSocket tunnel side by side, *)
(* each with its two forwarding goroutines and its errChan.                *)
(***************************************************************************)
NextChannels == NextStream \/ NextTunnel

SpecChannels == Init /\ [][NextChannels]_vars

\* the goroutines of the bridge or tunnel that have not sent their result
Unsent(goroutines) == Cardinality({ g \in DOMAIN goroutines : goroutines[g].pc # "exited" })

\* C38: in the stream bridge and in the tunnel, no forwarder is blocked in
\* its send on errChan, and the buffer has a free slot for every forwarder
\* that has not sent yet, whatever the handler has done.
C38_ForwardersNeverBlock ==
    /\ stream # Idle =>
         /\ \A d \in Directions : stream.forwarder[d].pc # "blocked"
         /\ Len(stream.errChan) + Unsent(stream.forwarder) <= ErrChanCapacity
    /\ tunnel # Idle =>
         /\ \A c \in Copiers : tunnel.copier[c].pc # "blocked"
         /\ Len(tunnel.errChan) + Unsent(tunnel.copier) <= ErrChanCapacity

\* both handlers have returned on the first result, and the second forwarder
\* of each has sent its result after that
C38_Witness ==
    /\ stream # Idle /\ stream.pc = "returned" /\ stream.received = 1
    /\ Len(stream.sent) = 2 /\ Len(stream.errChan) = 1
    /\ tunnel # Idle /\ tunnel.pc = "returned"
    /\ Len(tunnel.sent) = 2 /\ Len(tunnel.errChan) = 1

\* the step of a discovery pass that calls StoreAdvertised
StoreStep ==
    /\ pass.check.pc = "store"
    /\ pass'.check # pass.check

\* C39: StoreAdvertised for a key the store has leaves the entry's
\* IsValidated, IsWorking, ErrorCount, Height and Latency as they were and
\* adds no entry; for a key the store does not have it adds one entry, not
\* validated, not working, with ErrorCount 0; every other entry stays as it
\* was.
C39_StoreAdvertisedKeepsEntry ==
    [][StoreStep =>
        LET c == pass.check
            key == KeyOf(AdvertisedBy(c.status[1], c.types[c.i]))
        IN /\ \A k \in DOMAIN endpoints \ {key} :
                k \in DOMAIN endpoints' /\ endpoints'[k] = endpoints[k]
           /\ IF key \in DOMAIN endpoints
              THEN /\ DOMAIN endpoints' = DOMAIN endpoints
                   /\ endpoints'[key].IsValidated = endpoints[key].IsValidated
                   /\ endpoints'[key].IsWorking = endpoints[key].IsWorking
                   /\ endpoints'[key].ErrorCount = endpoints[key].ErrorCount
                   /\ endpoints'[key].Height = endpoints[key].Height
                   /\ endpoints'[key].Latency = endpoints[key].Latency
              ELSE /\ DOMAIN endpoints' = DOMAIN endpoints \cup {key}
                   /\ ~ endpoints'[key].IsValidated
                   /\ ~ endpoints'[key].IsWorking
                   /\ endpoints'[key].ErrorCount = 0]_vars

\* a later pass has called StoreAdvertised for the api endpoint, which an
\* earlier pass validated and the proxy has counted an error for
C39_Witness ==
    /\ pass.check.pc = "validate"
    /\ <<"api">> \in DOMAIN pass.check.log
    /\ ~ pass.check.log[<<"api">>].fresh
    /\ KeyOf(E1) \in DOMAIN endpoints
    /\ endpoints[KeyOf(E1)].IsValidated
    /\ endpoints[KeyOf(E1)].IsWorking
    /\ endpoints[KeyOf(E1)].ErrorCount > 0
    /\ endpoints[KeyOf(E1)].Height > 0

\* C40: a WebSocket upgrade request for which GetBestNode in ServeHTTP
\* selected an external endpoint ends with 503 and without a hijacked
\* connection.
C40_ExternalUpgradeAnswered503 ==
    (/\ req.pc = "done"
     /\ req.websocket
     /\ req.metrics # Nil
     /\ req.metrics[1].Source = "external")
        => (req.response = "503" /\ ~ req.hijacked)

====
